---------------------------- MODULE Spec2Model ----------------------------
(***************************************************************************)
(* Fixed-capacity hexadecimal big integers (class BigHexInt) and the       *)
(* number-theoretic routines built on them: naive and Karatsuba            *)
(* multiplication with the process-wide memo table, schoolbook long        *)
(* division, modular exponentiation and the Miller-Rabin test.             *)
(*                                                                         *)
(* A character is its ASCII code ('-' = 45, '0' = 48 .. '9' = 57,          *)
(* 'A' = 65 .. 'F' = 70, 'a' = 97 .. 'f' = 102); a std::string is a        *)
(* sequence of characters.  A BigHexInt is a record                        *)
(*    [digits |-> the first `length` entries of the char array,            *)
(*                least-significant first,  isNegative |-> BOOLEAN]        *)
(* so that `length` is Len(digits); the code never reads an entry at or    *)
(* beyond `length`.  A call that may throw returns a record                *)
(*    [err |-> "none" or the exception class, val |-> the value].          *)
(***************************************************************************)
EXTENDS Integers, Sequences, FiniteSets, TLC

HEX_SIZE == 128
KARATSUBA_THRESHOLD == 8

Max(a, b) == IF a > b THEN a ELSE b
Min(a, b) == IF a < b THEN a ELSE b

\* char digits[N]: a digit array as a sequence value, element by element.
Array(f) == SubSeq([i \in 1..Len(f) |-> f[i]], 1, Len(f))

\* A counted loop  for (i = lo; i < hi; i++) st = Step(st, i) : the steps are
\* taken in the order of the loop; the range is halved only to keep the
\* evaluation shallow, and the left half is evaluated before the right one.
RECURSIVE FoldRange(_, _, _, _)
FoldRange(Step(_, _), st, lo, hi) ==
    IF lo >= hi THEN st
    ELSE IF hi - lo = 1 THEN Step(st, lo)
    ELSE LET mid == (lo + hi) \div 2
             left == FoldRange(Step, st, lo, mid)
         IN IF left = left THEN FoldRange(Step, left, mid, hi) ELSE left

\* A scan  for (i = lo; i <= hi; i++) if (P(i)) break;  : the first i of
\* lo..hi with P(i), and hi + 1 when there is none.
RECURSIVE FirstIn(_, _, _)
FirstIn(P(_), lo, hi) ==
    IF lo > hi THEN lo
    ELSE IF lo = hi THEN (IF P(lo) THEN lo ELSE lo + 1)
    ELSE LET mid == (lo + hi) \div 2
             left == FirstIn(P, lo, mid)
         IN IF left <= mid THEN left ELSE FirstIn(P, mid + 1, hi)

\* A scan  for (i = hi; i >= lo; i--) if (P(i)) break;  : the last i of
\* lo..hi with P(i), and lo - 1 when there is none.
RECURSIVE LastIn(_, _, _)
LastIn(P(_), lo, hi) ==
    IF lo > hi THEN hi
    ELSE IF lo = hi THEN (IF P(lo) THEN lo ELSE lo - 1)
    ELSE LET mid == (lo + hi) \div 2
             right == LastIn(P, mid + 1, hi)
         IN IF right > mid THEN right ELSE LastIn(P, lo, mid)

RECURSIVE Call(_, _)

(***************************************************************************)
(* Characters and strings                                                  *)
(***************************************************************************)
convertHexDigitToInt(c) ==
    IF c >= 48 /\ c <= 57 THEN c - 48
    ELSE IF c >= 97 /\ c <= 102 THEN c - 97 + 10
    ELSE IF c >= 65 /\ c <= 70 THEN c - 65 + 10
    ELSE -1

\* n is always in 0..15 at the call sites; the throwing branch is the -1.
convertIntToHexChar(n) ==
    IF n >= 0 /\ n <= 9 THEN 48 + n
    ELSE IF n >= 10 /\ n < 16 THEN 97 + (n - 10)
    ELSE -1

\* std::string operator> : lexicographic on the character codes; the first
\* position where the strings differ decides, and the longer string is the
\* greater when one is a prefix of the other.
StrGreater(s, t) ==
    LET common == Min(Len(s), Len(t))
        i == FirstIn(LAMBDA k : s[k] # t[k], 1, common)
    IN IF i > common THEN Len(s) > Len(t) ELSE s[i] > t[i]

Reverse(s) == [i \in 1..Len(s) |-> s[Len(s) + 1 - i]]

(***************************************************************************)
(* Values and outcomes                                                     *)
(***************************************************************************)
BigHexInt(ds, neg) == [digits |-> ds, isNegative |-> neg]

\* BigHexInt() : length 1, digit '0', not negative.
ZeroValue == BigHexInt(<<48>>, FALSE)

Ok(v) == [err |-> "none", val |-> v]
Throw(e) == [err |-> e, val |-> ZeroValue]

isZero(x) == Len(x.digits) = 1 /\ x.digits[1] = 48

isOne(x) == Len(x.digits) = 1 /\ x.digits[1] = 49 /\ ~x.isNegative

isEven(x) == convertHexDigitToInt(x.digits[1]) % 2 = 0

\* while (length > 1 && digits[length - 1] == '0') length--;
\* the digits up to the highest one that is not '0', at least one digit.
stripHighZeros(ds) ==
    SubSeq(ds, 1, Max(1, LastIn(LAMBDA k : ds[k] # 48, 2, Len(ds))))

isValidInput(str) ==
    IF Len(str) = 0 THEN FALSE
    ELSE IF Len(str) > HEX_SIZE + 1 THEN FALSE
    ELSE LET start == IF str[1] = 45 THEN 1 ELSE 0
         IN IF start = 1 /\ Len(str) = 1 THEN FALSE
            ELSE \A i \in (start + 1)..Len(str) :
                    convertHexDigitToInt(str[i]) # -1

\* actual_start of createFromString (0-based):
\* while (actual_start < str.length() - 1 && str[actual_start] == '0')
\*     actual_start++;
skipLeadingZeros(str, start) ==
    FirstIn(LAMBDA k : str[k + 1] # 48, start, Len(str) - 2)

\* createFromString with the sign of the literal kept on a zero value.
createFromStringKeepsSign(str) ==
    IF ~isValidInput(str) THEN Throw("InvalidInput")
    ELSE LET neg == str[1] = 45
             start == IF neg THEN 1 ELSE 0
             actual_start == skipLeadingZeros(str, start)
             inputLength == Len(str) - actual_start
         IN IF inputLength > HEX_SIZE THEN Throw("Overflow")
            ELSE Ok(BigHexInt(
                     [i \in 1..inputLength |->
                         str[actual_start + inputLength - (i - 1)]],
                     neg))

createFromString(str) ==
    IF ~isValidInput(str) THEN Throw("InvalidInput")
    ELSE LET neg == str[1] = 45
             start == IF neg THEN 1 ELSE 0
             actual_start == skipLeadingZeros(str, start)
             inputLength == Len(str) - actual_start
         IN IF inputLength > HEX_SIZE THEN Throw("Overflow")
            ELSE IF inputLength = 1 /\ str[actual_start + 1] = 48
                 THEN Ok(ZeroValue)
            ELSE Ok(BigHexInt(
                     [i \in 1..inputLength |->
                         str[actual_start + inputLength - (i - 1)]],
                     neg))

toString(x) ==
    LET body == Reverse(stripHighZeros(x.digits))
    IN IF x.isNegative /\ ~isZero(x) THEN <<45>> \o body ELSE body

\* for (i = length - 1; i >= 0; i--) of compare: the first difference from
\* the top decides.
compareDigits(a, b, length) ==
    LET i == LastIn(LAMBDA k : convertHexDigitToInt(a.digits[k])
                                 # convertHexDigitToInt(b.digits[k]),
                    1, length)
    IN IF i < 1 THEN 0
       ELSE IF convertHexDigitToInt(a.digits[i])
                 > convertHexDigitToInt(b.digits[i])
            THEN 1 ELSE -1

\* compare without the inversion for two negative operands.
compareUninverted(a, b) ==
    IF a.isNegative /\ ~b.isNegative THEN -1
    ELSE IF ~a.isNegative /\ b.isNegative THEN 1
    ELSE IF Len(a.digits) # Len(b.digits)
         THEN (IF Len(a.digits) > Len(b.digits) THEN 1 ELSE -1)
         ELSE compareDigits(a, b, Len(a.digits))

compare(a, b) ==
    IF a.isNegative /\ ~b.isNegative THEN -1
    ELSE IF ~a.isNegative /\ b.isNegative THEN 1
    ELSE LET sign_multiplier == IF a.isNegative THEN -1 ELSE 1
             la == Len(a.digits)
             lb == Len(b.digits)
         IN IF la # lb
            THEN (IF la > lb THEN 1 ELSE -1) * sign_multiplier
            ELSE compareDigits(a, b, la) * sign_multiplier

(***************************************************************************)
(* Linear arithmetic                                                       *)
(***************************************************************************)
\* One iteration of the carry loop of operator+ (equal signs); i is the
\* 0-based position, st the digits written so far and the carry.
addBody(a, b, st, i) ==
    IF st.err # "none" THEN st
    ELSE IF i >= HEX_SIZE THEN [st EXCEPT !.err = "Overflow"]
    ELSE LET digitA == IF i < Len(a.digits)
                       THEN convertHexDigitToInt(a.digits[i + 1]) ELSE 0
             digitB == IF i < Len(b.digits)
                       THEN convertHexDigitToInt(b.digits[i + 1]) ELSE 0
             sum == digitA + digitB + st.carry
         IN [digits |-> Append(st.digits, convertIntToHexChar(sum % 16)),
             carry |-> sum \div 16, err |-> "none"]

\* The iterations past max_len, taken while a carry is left.
RECURSIVE addTail(_, _, _, _)
addTail(a, b, st, i) ==
    IF st.err = "none" /\ st.carry # 0
    THEN addTail(a, b, addBody(a, b, st, i), i + 1)
    ELSE st

\* for (i = 0; i < max_len || carry; i++) and the length adjustment.
addLoop(a, b) ==
    LET max_len == Max(Len(a.digits), Len(b.digits))
        counted == FoldRange(LAMBDA st, i : addBody(a, b, st, i),
                             [digits |-> <<>>, carry |-> 0, err |-> "none"],
                             0, max_len)
        done == addTail(a, b, counted, max_len)
    IN IF done.err # "none" THEN Throw(done.err)
       ELSE Ok(BigHexInt(stripHighZeros(done.digits), a.isNegative))

\* cmp_abs of operator- : magnitudes compared by length, then digit by digit.
cmpAbs(a, b) ==
    Call("compare", <<BigHexInt(a.digits, FALSE), BigHexInt(b.digits, FALSE)>>)

\* One iteration of the borrow loop of operator- (equal signs).
subBody(larger, smaller, st, i) ==
    LET digitL == convertHexDigitToInt(larger.digits[i + 1])
        digitS == IF i < Len(smaller.digits)
                  THEN convertHexDigitToInt(smaller.digits[i + 1]) ELSE 0
        diff == digitL - digitS - st.borrow
    IN IF diff < 0
       THEN [digits |-> Append(st.digits, convertIntToHexChar(diff + 16)),
             borrow |-> 1]
       ELSE [digits |-> Append(st.digits, convertIntToHexChar(diff)),
             borrow |-> 0]

subLoop(larger, smaller) ==
    FoldRange(LAMBDA st, i : subBody(larger, smaller, st, i),
              [digits |-> <<>>, borrow |-> 0], 0, Len(larger.digits)).digits

\* operator- on operands of equal sign.
minusSameSign(a, b) ==
    LET signed(ds, neg) ==
            BigHexInt(ds, IF Len(ds) = 1 /\ ds[1] = 48 THEN FALSE ELSE neg)
        ordered(cmp_abs) ==
            IF cmp_abs >= 0
            THEN signed(stripHighZeros(Call("subLoop", <<a, b>>)), a.isNegative)
            ELSE signed(stripHighZeros(Call("subLoop", <<b, a>>)), ~a.isNegative)
    IN ordered(cmpAbs(a, b))

operatorPlus(a, b) ==
    IF a.isNegative # b.isNegative
    THEN LET absA == BigHexInt(a.digits, FALSE)
             absB == BigHexInt(b.digits, FALSE)
         IN IF Call("compare", <<absA, absB>>) >= 0
            THEN Ok(BigHexInt(Call("minusSameSign", <<absA, absB>>).digits, a.isNegative))
            ELSE Ok(BigHexInt(Call("minusSameSign", <<absB, absA>>).digits, b.isNegative))
    ELSE Call("addLoop", <<a, b>>)

operatorMinus(a, b) ==
    IF a.isNegative # b.isNegative
    THEN Call("operatorPlus", <<a, BigHexInt(b.digits, ~b.isNegative)>>)
    ELSE Ok(Call("minusSameSign", <<a, b>>))

(***************************************************************************)
(* Digit-array helpers                                                     *)
(***************************************************************************)
shiftLeft(x, n) ==
    IF n < 0 THEN Throw("InvalidInput")
    ELSE IF n = 0 THEN Ok(x)
    ELSE IF isZero(x) THEN Ok(x)
    ELSE IF Len(x.digits) + n > HEX_SIZE THEN Throw("Overflow")
    ELSE Ok(BigHexInt([i \in 1..n |-> 48] \o x.digits, x.isNegative))

getLower(x, n) ==
    LET actual_len == Min(Len(x.digits), n)
    IN IF actual_len = 0 THEN ZeroValue
       ELSE BigHexInt(SubSeq(x.digits, 1, actual_len), FALSE)

getHigher(x, n) ==
    IF Len(x.digits) <= n THEN ZeroValue
    ELSE BigHexInt(SubSeq(x.digits, n + 1, Len(x.digits)), FALSE)

pad(x, targetLen) ==
    IF Len(x.digits) < targetLen
    THEN IF targetLen > HEX_SIZE THEN Throw("Overflow")
         ELSE Ok(BigHexInt(
                   x.digits \o [i \in 1..(targetLen - Len(x.digits)) |-> 48],
                   x.isNegative))
    ELSE Ok(x)

(***************************************************************************)
(* Naive multiplication                                                    *)
(***************************************************************************)
\* One iteration of the inner loop: st is the result array and the carry,
\* i and j the 0-based positions.  The array is kept to length +
\* other.length entries: no write of the loop lands beyond them.
mulBody(a_digit, other, i, st, j) ==
    LET b_digit == IF j < Len(other.digits)
                   THEN convertHexDigitToInt(other.digits[j + 1]) ELSE 0
        current == convertHexDigitToInt(st.res[i + j + 1])
        prod == current + a_digit * b_digit + st.carry
    IN [res |-> [st.res EXCEPT ![i + j + 1] = convertIntToHexChar(prod % 16)],
        carry |-> prod \div 16]

\* The iterations past other.length, taken while a carry is left.
RECURSIVE mulTail(_, _, _, _, _)
mulTail(a_digit, other, i, st, j) ==
    IF st.carry # 0
    THEN mulTail(a_digit, other, i, mulBody(a_digit, other, i, st, j), j + 1)
    ELSE st

\* for (j = 0; j < other.length || carry; j++) for the digit i of *this.
mulInner(this, other, res, i) ==
    LET a_digit == convertHexDigitToInt(this.digits[i + 1])
        counted == FoldRange(LAMBDA st, j : mulBody(a_digit, other, i, st, j),
                             [res |-> res, carry |-> 0],
                             0, Len(other.digits))
    IN mulTail(a_digit, other, i, counted, Len(other.digits)).res

mulOuter(this, other, res) ==
    FoldRange(LAMBDA r, i : mulInner(this, other, r, i),
              res, 0, Len(this.digits))

multiplyNaive(this, other) ==
    IF isZero(this) \/ isZero(other) THEN Ok(ZeroValue)
    ELSE IF Len(this.digits) + Len(other.digits) > HEX_SIZE
         THEN Throw("Overflow")
    ELSE LET total == Len(this.digits) + Len(other.digits)
             res == mulOuter(this, other, Array([k \in 1..total |-> 48]))
         IN Ok(BigHexInt(stripHighZeros(res),
                         this.isNegative # other.isNegative))

(***************************************************************************)
(* Karatsuba multiplication with the memo table                            *)
(*                                                                         *)
(* The memo table is a function from <<string, string>> keys to strings.   *)
(* A call returns [err, val, memo]: the table as the call leaves it, also  *)
(* when it throws.                                                         *)
(***************************************************************************)
MemoOk(v, memo) == [err |-> "none", val |-> v, memo |-> memo]
MemoThrow(e, memo) == [err |-> e, val |-> ZeroValue, memo |-> memo]

\* The key built from the operands in the order of the call.
memoKeyUnsorted(this, other) == <<Call("toString", <<this>>), Call("toString", <<other>>)>>

memoKey(this, other) ==
    LET sorted(thisStr, otherStr) ==
            IF StrGreater(thisStr, otherStr)
            THEN <<otherStr, thisStr>> ELSE <<thisStr, otherStr>>
    IN sorted(Call("toString", <<this>>), Call("toString", <<other>>))

\* A store that starts the table afresh: only the new entry is kept.
memoStoreFresh(memo, key, str) == [k \in {key} |-> str]

memoStore(memo, key, str) ==
    [k \in DOMAIN memo \cup {key} |-> IF k = key THEN str ELSE memo[k]]

\* The recombination with the sign of the left operand given to the result.
combineSignOfThis(this, other, z0, z1raw, z2, m) ==
    LET summed(s2) ==
            IF s2.err # "none" THEN s2
            ELSE Ok(BigHexInt(stripHighZeros(s2.val.digits),
                              this.isNegative))
        added(s1) ==
            IF s1.err # "none" THEN s1
            ELSE summed(Call("operatorPlus", <<s1.val, z0>>))
        shifted2(part1, part2) ==
            IF part2.err # "none" THEN part2
            ELSE added(Call("operatorPlus", <<part1.val, part2.val>>))
        shifted1(d2, part1) ==
            IF part1.err # "none" THEN part1
            ELSE shifted2(part1, Call("shiftLeft", <<d2.val, m>>))
        reduced2(d2) ==
            IF d2.err # "none" THEN d2
            ELSE shifted1(d2, Call("shiftLeft", <<z2, 2 * m>>))
        reduced1(d1) ==
            IF d1.err # "none" THEN d1
            ELSE reduced2(Call("operatorMinus", <<d1.val, z0>>))
    IN reduced1(Call("operatorMinus", <<z1raw, z2>>))

\* The recombination of the three sub-products: z1 - z2 - z0, the two
\* shifts, the sum, the final sign and the length adjustment.
combine(this, other, z0, z1raw, z2, m) ==
    LET summed(s2) ==
            IF s2.err # "none" THEN s2
            ELSE Ok(BigHexInt(stripHighZeros(s2.val.digits),
                              this.isNegative # other.isNegative))
        added(s1) ==
            IF s1.err # "none" THEN s1
            ELSE summed(Call("operatorPlus", <<s1.val, z0>>))
        shifted2(part1, part2) ==
            IF part2.err # "none" THEN part2
            ELSE added(Call("operatorPlus", <<part1.val, part2.val>>))
        shifted1(d2, part1) ==
            IF part1.err # "none" THEN part1
            ELSE shifted2(part1, Call("shiftLeft", <<d2.val, m>>))
        reduced2(d2) ==
            IF d2.err # "none" THEN d2
            ELSE shifted1(d2, Call("shiftLeft", <<z2, 2 * m>>))
        reduced1(d1) ==
            IF d1.err # "none" THEN d1
            ELSE reduced2(Call("operatorMinus", <<d1.val, z0>>))
    IN reduced1(Call("operatorMinus", <<z1raw, z2>>))

\* n of karatsuba taken as half the longer length, rounded up to even.
splitLengthHalved(this, other) ==
    LET n == Max(Len(this.digits), Len(other.digits)) \div 2
    IN IF n % 2 # 0 THEN n + 1 ELSE n

\* n of karatsuba: the longer length, rounded up to even.
splitLength(this, other) ==
    LET n == Max(Len(this.digits), Len(other.digits))
    IN IF n % 2 # 0 THEN n + 1 ELSE n

RECURSIVE karatsuba(_, _, _)
karatsuba(this, other, memo) ==
    LET stored(key, result, table) ==
            IF result.err # "none" THEN MemoThrow(result.err, table)
            ELSE MemoOk(result.val,
                        memoStore(table, key, Call("toString", <<result.val>>)))
        found(hit) == [err |-> hit.err, val |-> hit.val, memo |-> memo]
        third(key, m, z0, z2, z1) ==
            IF z1.err # "none" THEN MemoThrow(z1.err, z1.memo)
            ELSE stored(key,
                        Call("combine", <<this, other, z0.val, z1.val, z2.val, m>>),
                        z1.memo)
        sums(key, m, z0, z2, sum1, sum2) ==
            IF sum1.err # "none" THEN MemoThrow(sum1.err, z2.memo)
            ELSE IF sum2.err # "none" THEN MemoThrow(sum2.err, z2.memo)
            ELSE third(key, m, z0, z2,
                       karatsuba(sum1.val, sum2.val, z2.memo))
        second(key, m, low1, high1, low2, high2, z0, z2) ==
            IF z2.err # "none" THEN MemoThrow(z2.err, z2.memo)
            ELSE sums(key, m, z0, z2, Call("operatorPlus", <<low1, high1>>),
                      Call("operatorPlus", <<low2, high2>>))
        first(key, m, low1, high1, low2, high2, z0) ==
            IF z0.err # "none" THEN MemoThrow(z0.err, z0.memo)
            ELSE second(key, m, low1, high1, low2, high2, z0,
                        karatsuba(high1, high2, z0.memo))
        halves(key, m, low1, high1, low2, high2) ==
            first(key, m, low1, high1, low2, high2,
                  karatsuba(low1, low2, memo))
        padded(key, m, x, y) ==
            IF x.err # "none" THEN MemoThrow(x.err, memo)
            ELSE IF y.err # "none" THEN MemoThrow(y.err, memo)
            ELSE halves(key, m, Call("getLower", <<x.val, m>>), Call("getHigher", <<x.val, m>>),
                        Call("getLower", <<y.val, m>>), Call("getHigher", <<y.val, m>>))
        split(key, n) == padded(key, n \div 2, Call("pad", <<this, n>>), Call("pad", <<other, n>>))
        keyed(key) ==
            IF key \in DOMAIN memo
            THEN found(Call("createFromString", <<memo[key]>>))
            ELSE IF Len(this.digits) <= KARATSUBA_THRESHOLD
                    \/ Len(other.digits) <= KARATSUBA_THRESHOLD
            THEN stored(key, Call("multiplyNaive", <<this, other>>), memo)
            ELSE IF isZero(this) \/ isZero(other)
            THEN MemoOk(ZeroValue,
                        memoStore(memo, key, Call("toString", <<ZeroValue>>)))
            ELSE split(key, splitLength(this, other))
    IN keyed(Call("memoKey", <<this, other>>))

operatorTimes(this, other, memo) ==
    LET returned(r) == [err |-> r.err, val |-> r.val, memo |-> memo]
    IN IF Len(this.digits) + Len(other.digits) > KARATSUBA_THRESHOLD * 2
       THEN Call("karatsuba", <<this, other, memo>>)
       ELSE returned(Call("multiplyNaive", <<this, other>>))

(***************************************************************************)
(* Long division                                                           *)
(***************************************************************************)
\* digitValue with the digit f taken for e.
digitValueBelowF(d) ==
    Call("createFromString", <<<<convertIntToHexChar(Min(d, 14))>>>>).val

\* BigHexInt(std::string(1, convertIntToHexChar(d)))
digitValue(d) == Call("createFromString", <<<<convertIntToHexChar(d)>>>>).val

\* The linear search for the quotient digit: d runs from 1 to f and stops at
\* the first multiple of the divisor above the partial dividend.
RECURSIVE searchDigit(_, _, _, _)
searchDigit(cur, abs_divisor, d, q_digit) ==
    IF d < 16
    THEN LET tried(next_mult) ==
                 IF next_mult.err # "none"
                 THEN [err |-> next_mult.err, q_digit |-> q_digit]
                 ELSE IF Call("compare", <<cur, next_mult.val>>) >= 0
                      THEN searchDigit(cur, abs_divisor, d + 1, d)
                      ELSE [err |-> "none", q_digit |-> q_digit]
         IN tried(Call("multiplyNaive", <<abs_divisor, digitValue(d)>>))
    ELSE [err |-> "none", q_digit |-> q_digit]

\* One iteration of the digit loop of divide: the digit i of the dividend is
\* brought in.  st holds current_dividend_part and quotient (digit arrays of
\* non-negative values) and the exception thrown so far.
divideBody(this, abs_divisor, st, i) ==
    IF st.err # "none" THEN st
    ELSE
      LET quotient == BigHexInt(st.quotient, FALSE)
          shifted(sh) == [st EXCEPT !.quotient = sh.val.digits,
                                    !.err = sh.err]
          subtracted(found, rest) ==
              IF rest.err # "none" THEN [st EXCEPT !.err = rest.err]
              ELSE [cur |-> rest.val.digits,
                    quotient |-> stripHighZeros(
                                     <<convertIntToHexChar(found.q_digit)>>
                                       \o st.quotient),
                    err |-> "none"]
          multiplied(cur, found, subtract_val) ==
              IF subtract_val.err # "none"
              THEN [st EXCEPT !.err = subtract_val.err]
              ELSE subtracted(found, Call("operatorMinus", <<cur, subtract_val.val>>))
          searched(cur, found) ==
              IF found.err # "none" THEN [st EXCEPT !.err = found.err]
              ELSE multiplied(cur, found,
                              Call("multiplyNaive", <<abs_divisor,
                                            digitValue(found.q_digit)>>))
          brought(cur) ==
              IF Call("compare", <<cur, abs_divisor>>) < 0
              THEN IF Len(st.quotient) > 1 \/ st.quotient[1] # 48
                   THEN [shifted(Call("shiftLeft", <<quotient, 1>>))
                            EXCEPT !.cur = cur.digits]
                   ELSE [st EXCEPT !.cur = cur.digits]
              ELSE searched(cur, searchDigit(cur, abs_divisor, 1, 0))
      IN brought(BigHexInt(stripHighZeros(<<this.digits[i + 1]>> \o st.cur),
                           FALSE))

DivOk(q, r) == [err |-> "none", quotient |-> q, remainder |-> r]
\* The throw of divide replaced by a return of zeros.
DivReturnZeros(e) ==
    [err |-> "none", quotient |-> ZeroValue, remainder |-> ZeroValue]

DivThrow(e) == [err |-> e, quotient |-> ZeroValue, remainder |-> ZeroValue]

\* The remainder handed back when |dividend| < |divisor|.
smallDividendRemainder(this) == BigHexInt(this.digits, FALSE)

\* divide(divisor, &remainder): the quotient and the remainder.
divide(this, divisor) ==
    LET abs_this == BigHexInt(this.digits, FALSE)
        abs_divisor == BigHexInt(divisor.digits, FALSE)
        signed(q, r) ==
            DivOk(BigHexInt(q.digits,
                            IF isZero(q) THEN FALSE
                            ELSE this.isNegative # divisor.isNegative),
                  BigHexInt(r.digits,
                            IF isZero(r) THEN FALSE ELSE this.isNegative))
        finished(done) ==
            IF done.err # "none" THEN DivThrow(done.err)
            ELSE signed(BigHexInt(done.quotient, FALSE),
                        BigHexInt(done.cur, FALSE))
    IN IF isZero(abs_divisor) THEN DivThrow("DivisionByZero")
       ELSE IF isZero(abs_this) THEN DivOk(ZeroValue, ZeroValue)
       ELSE IF Call("compare", <<abs_this, abs_divisor>>) < 0
            THEN DivOk(ZeroValue, smallDividendRemainder(this))
       ELSE finished(
              FoldRange(LAMBDA st, k :
                            divideBody(this, abs_divisor, st,
                                       Len(this.digits) - 1 - k),
                        [cur |-> <<48>>, quotient |-> <<48>>, err |-> "none"],
                        0, Len(this.digits)))

operatorDiv(this, divisor) ==
    LET returned(d) == [err |-> d.err, val |-> d.quotient]
    IN returned(Call("divide", <<this, divisor>>))

operatorMod(this, divisor) ==
    LET returned(d) == [err |-> d.err, val |-> d.remainder]
    IN returned(Call("divide", <<this, divisor>>))

(***************************************************************************)
(* Modular exponentiation                                                  *)
(***************************************************************************)
\* The literals "0", "1", "2", "3" the routines construct.
zero == Call("createFromString", <<<<48>>>>).val
one == Call("createFromString", <<<<49>>>>).val
two == Call("createFromString", <<<<50>>>>).val
three == Call("createFromString", <<<<51>>>>).val

\* (x * y) / modulus in the place of (x * y) % modulus.
mulModQuotient(x, y, modulus, memo) ==
    LET reduced(prod, red) ==
            [err |-> red.err, val |-> red.val, memo |-> prod.memo]
        multiplied(prod) ==
            IF prod.err # "none" THEN MemoThrow(prod.err, prod.memo)
            ELSE reduced(prod, Call("operatorDiv", <<prod.val, modulus>>))
    IN multiplied(Call("operatorTimes", <<x, y, memo>>))

\* (x * y) % modulus, with the memo table the product leaves behind.
mulMod(x, y, modulus, memo) ==
    LET reduced(prod, red) ==
            [err |-> red.err, val |-> red.val, memo |-> prod.memo]
        multiplied(prod) ==
            IF prod.err # "none" THEN MemoThrow(prod.err, prod.memo)
            ELSE reduced(prod, Call("operatorMod", <<prod.val, modulus>>))
    IN multiplied(Call("operatorTimes", <<x, y, memo>>))

\* The loop body without the multiplication into res: base is squared and
\* exp is halved only.
modPowerBodySkipsMultiply(st, modulus) ==
    LET squared(half, sq) ==
            [res |-> st.res, base |-> sq.val, exp |-> half.val,
             memo |-> sq.memo, err |-> sq.err]
    IN squared(Call("operatorDiv", <<st.exp, two>>),
               Call("mulMod", <<st.base, st.base, modulus, st.memo>>))

\* One iteration of the loop of modPower; st holds res, base, exp, the memo
\* table and the exception thrown so far.
modPowerBody(st, modulus) ==
    LET squared(m1, half, sq) ==
            IF sq.err # "none"
            THEN [st EXCEPT !.err = sq.err, !.memo = sq.memo]
            ELSE [res |-> m1.val, base |-> sq.val, exp |-> half.val,
                  memo |-> sq.memo, err |-> "none"]
        halved(m1, half) ==
            IF half.err # "none"
            THEN [st EXCEPT !.err = half.err, !.memo = m1.memo]
            ELSE squared(m1, half, Call("mulMod", <<st.base, st.base, modulus, m1.memo>>))
        multiplied(m1) ==
            IF m1.err # "none"
            THEN [st EXCEPT !.err = m1.err, !.memo = m1.memo]
            ELSE halved(m1, Call("operatorDiv", <<st.exp, two>>))
    IN IF convertHexDigitToInt(st.exp.digits[1]) % 2 # 0
       THEN multiplied(Call("mulMod", <<st.res, st.base, modulus, st.memo>>))
       ELSE multiplied(MemoOk(st.res, st.memo))

\* while (exp.compare(zero) > 0)
RECURSIVE modPowerLoop(_, _)
modPowerLoop(st, modulus) ==
    IF st.err = "none" /\ Call("compare", <<st.exp, zero>>) > 0
    THEN modPowerLoop(modPowerBody(st, modulus), modulus)
    ELSE st

\* this->modPower(exponent, modulus)
modPower(this, exponent, modulus, memo) ==
    LET looped(done) ==
            IF done.err # "none" THEN MemoThrow(done.err, done.memo)
            ELSE MemoOk(done.res, done.memo)
        reduced(base) ==
            IF base.err # "none" THEN MemoThrow(base.err, memo)
            ELSE looped(modPowerLoop([res |-> one, base |-> base.val,
                                      exp |-> exponent, memo |-> memo,
                                      err |-> "none"], modulus))
    IN reduced(Call("operatorMod", <<this, modulus>>))

(***************************************************************************)
(* Random values                                                           *)
(***************************************************************************)
\* convertHexDigitToInt(digit) | 1
\* The digit left as it was drawn.
keepDigit(d) == d

orOne(d) == IF d % 2 = 0 THEN d + 1 ELSE d

\* Every value generateRandom(numHexDigits) can return: the top digit is
\* drawn until it is not '0', the lower digits are any, and the lowest digit
\* is then made odd.
generateRandom(numHexDigits) ==
    IF numHexDigits <= 0 \/ numHexDigits > HEX_SIZE
    THEN {Throw("InvalidInput")}
    ELSE {Ok(BigHexInt(
               stripHighZeros(
                   [i \in 1..numHexDigits |->
                       convertIntToHexChar(
                           IF i = 1
                           THEN orOne(IF numHexDigits = 1 THEN top
                                      ELSE low[1])
                           ELSE IF i = numHexDigits THEN top ELSE low[i])]),
               FALSE)) :
            top \in 1..15, low \in [1..(numHexDigits - 1) -> 0..15]}

(***************************************************************************)
(* The Miller-Rabin test: witnesses and the loops of millerRabinTest       *)
(***************************************************************************)
\* *this - BigHexInt("1")
subtractOne(x) == Call("operatorMinus", <<x, one>>).val

MaxRandomDigits == 2

\* The values generateRandom(numDigits) is followed through: every value it
\* can return up to MaxRandomDigits digits, and beyond that the values whose
\* digits are all the same before the lowest one is made odd.
randomDraws(numDigits) ==
    IF numDigits <= MaxRandomDigits \/ numDigits > HEX_SIZE
    THEN Call("generateRandom", <<numDigits>>)
    ELSE {Ok(BigHexInt([i \in 1..numDigits |->
                           convertIntToHexChar(IF i = 1 THEN orOne(v) ELSE v)],
                       FALSE)) : v \in {1, 7}}

\* generateRandomBigHexIntInRange without the rejection loop: min +
\* random_val for every draw, above range or not.
generateRandomBigHexIntInRangeFirstDraw(min, max) ==
    LET drawn(range) ==
            IF Len(range.digits) = 1 /\ range.digits[1] = 48
            THEN {Ok(min)}
            ELSE {IF random_val.err # "none" THEN random_val
                  ELSE Call("operatorPlus", <<min, random_val.val>>) :
                     random_val \in Call("randomDraws", <<Len(range.digits)>>)}
    IN drawn(Call("operatorMinus", <<max, min>>).val)

\* generateRandomBigHexIntInRange(min, max): every value the call can
\* return.  The draws above range are drawn again, so the call returns
\* min + random_val for each draw that is not above range.
generateRandomBigHexIntInRange(min, max) ==
    LET drawn(range) ==
            IF Len(range.digits) = 1 /\ range.digits[1] = 48
            THEN {Ok(min)}
            ELSE {IF random_val.err # "none" THEN random_val
                  ELSE Call("operatorPlus", <<min, random_val.val>>) :
                     random_val \in
                        {g \in Call("randomDraws", <<Len(range.digits)>>) :
                            \/ g.err # "none"
                            \/ Call("compare", <<g.val, range>>) <= 0}}
        swapped(range) ==
            IF range.isNegative
            THEN drawn(Call("operatorMinus", <<min, max>>).val)
            ELSE drawn(range)
    IN swapped(Call("operatorMinus", <<max, min>>).val)

\* while (d.isEven()) { d = d / two; s++; }
RECURSIVE oddPart(_, _)
oddPart(d, s) ==
    IF isEven(d)
    THEN Call("oddPart", <<Call("operatorDiv", <<d, two>>).val, s + 1>>)
    ELSE [d |-> d, s |-> s]

\* What the inner loop does with x after a squaring; x = 1 ends the loop as
\* x = n - 1 does.
afterSquaringOneIsPrime(x, n_minus_1) ==
    IF isOne(x) \/ Call("compare", <<x, n_minus_1>>) = 0 THEN "prime"
    ELSE "next"

\* What the inner loop does with x after a squaring: x = 1 ends the loop
\* with composite still true, x = n - 1 ends it with composite = false.
afterSquaring(x, n_minus_1) ==
    IF isOne(x) THEN "composite"
    ELSE IF Call("compare", <<x, n_minus_1>>) = 0 THEN "prime"
    ELSE "next"

\* for (int r = 0; r < s; ++r) { x = (x * x) % n; ... }: composite as the
\* loop leaves it, with the memo table and the exception thrown, if any.
RECURSIVE squarings(_, _, _, _, _, _)
squarings(x, r, s, n, n_minus_1, memo) ==
    LET squared(sq) ==
            IF sq.err # "none"
            THEN [composite |-> TRUE, memo |-> sq.memo, err |-> sq.err]
            ELSE IF Call("afterSquaring", <<sq.val, n_minus_1>>) = "next"
            THEN Call("squarings", <<sq.val, r + 1, s, n, n_minus_1, sq.memo>>)
            ELSE [composite |->
                      Call("afterSquaring", <<sq.val, n_minus_1>>)
                          = "composite",
                  memo |-> sq.memo, err |-> "none"]
    IN IF r < s THEN squared(Call("mulMod", <<x, x, n, memo>>))
       ELSE [composite |-> TRUE, memo |-> memo, err |-> "none"]

\* The locals of a call that has returned verdict.
MRReturned(n, k, verdict) ==
    [pc |-> "returned", n |-> n, k |-> k, verdict |-> verdict]

\* n.millerRabinTest(k) up to the loop over the rounds: the early returns
\* and n - 1 = d * 2^s.
millerRabinStart(n, k) ==
    LET decomposed(n_minus_1, ds) ==
            [pc |-> "loop", n |-> n, k |-> k, i |-> 0, d |-> ds.d,
             s |-> ds.s, n_minus_1 |-> n_minus_1, a |-> zero]
        odd(n_minus_1) ==
            decomposed(n_minus_1, Call("oddPart", <<n_minus_1, 0>>))
    IN IF Call("compare", <<n, one>>) <= 0 THEN MRReturned(n, k, FALSE)
       ELSE IF Call("compare", <<n, two>>) = 0
               \/ Call("compare", <<n, three>>) = 0
       THEN MRReturned(n, k, TRUE)
       ELSE IF isEven(n) THEN MRReturned(n, k, FALSE)
       ELSE odd(Call("subtractOne", <<n>>))

\* One round of the loop, for every witness the generator can draw: x =
\* a^d % n is computed and squared up to s times.  The call returns false
\* when the round leaves composite true, and ends with the exception a
\* multiplication throws.  st holds the locals, the outcome is the locals
\* and the memo table after the round.
millerRabinRound(st, memo) ==
    LET thrown(e, m) ==
            [mr |-> [pc |-> "thrown", n |-> st.n, k |-> st.k, err |-> e],
             memo |-> m]
        passed(w, m) ==
            [mr |-> [st EXCEPT !.i = st.i + 1, !.a = w.val], memo |-> m]
        looped(w, sq) ==
            IF sq.err # "none" THEN thrown(sq.err, sq.memo)
            ELSE IF sq.composite
            THEN [mr |-> MRReturned(st.n, st.k, FALSE), memo |-> sq.memo]
            ELSE passed(w, sq.memo)
        tested(w, x) ==
            IF x.err # "none" THEN thrown(x.err, x.memo)
            ELSE IF isOne(x.val)
                    \/ Call("compare", <<x.val, st.n_minus_1>>) = 0
            THEN passed(w, x.memo)
            ELSE looped(w, Call("squarings",
                                <<x.val, 0, st.s, st.n, st.n_minus_1,
                                  x.memo>>))
        round(w) ==
            IF w.err # "none" THEN thrown(w.err, memo)
            ELSE tested(w, Call("modPower", <<w.val, st.d, st.n, memo>>))
    IN {round(w) :
          w \in Call("generateRandomBigHexIntInRange",
                     <<two, Call("subtractOne",
                                 <<Call("subtractOne", <<st.n>>)>>)>>)}

(***************************************************************************)
(* Prime generation: the sieve of generatePrime                            *)
(***************************************************************************)
addOne(x) == Call("operatorPlus", <<x, one>>).val

\* The small-prime sieve of generatePrime on a candidate: "continue" when
\* the candidate is skipped, "test" when it goes on to millerRabinTest.  The
\* literals are those of the source, read in base 16.
smallPrimeSieve(candidate) ==
    LET value(literal) == Call("createFromString", <<literal>>).val
        five == value(<<53>>)
        seven == value(<<55>>)
        eleven == value(<<49, 49>>)
        thirteen == value(<<49, 51>>)
        seventeen == value(<<49, 55>>)
        nineteen == value(<<49, 57>>)
        divides(p) == isZero(Call("operatorMod", <<candidate, p>>).val)
    IN IF isZero(candidate) \/ isOne(candidate) THEN "continue"
       ELSE IF \E p \in {two, three, five, seven, eleven, thirteen} :
                  Call("compare", <<candidate, p>>) = 0
       THEN "test"
       ELSE IF \/ isEven(candidate)
               \/ \E p \in {three, five, seven, eleven, seventeen, nineteen,
                            thirteen} : divides(p)
       THEN "continue"
       ELSE "test"

(***************************************************************************)
(* The second implementation (unnamed/part_000 with Bigint.hpp).  Its      *)
(* values keep the whole digit array: the routines read and write          *)
(* positions beyond length.  Its definitions carry the suffix 2 where the  *)
(* first implementation has one of the same name.                          *)
(***************************************************************************)
HEX_SIZE2 == 64
MAX_HEX_RESULT_SIZE == 128
KARATSUBA_THRESHOLD2 == 4

\* std::fill(digits, digits + MAX_HEX_RESULT_SIZE, '0')
Zeros2 == Array([i \in 1..MAX_HEX_RESULT_SIZE |-> 48])

BigHexInt2(ds, len, neg) ==
    [digits |-> Array(ds), length |-> len, isNegative |-> neg]

\* BigHexInt() : length 1, all digits '0', not negative.
ZeroValue2 == BigHexInt2(Zeros2, 1, FALSE)

Ok2(v) == [err |-> "none", val |-> v]
Throw2(e) == [err |-> e, val |-> ZeroValue2]

\* while (actualLength > 1 && digits[actualLength-1] == '0') actualLength--;
adjustLength2(ds, actualLength) ==
    Max(1, LastIn(LAMBDA k : ds[k] # 48, 2, actualLength))

isZero2(x) == \A i \in 1..x.length : x.digits[i] = 48

isOne2(x) ==
    /\ x.length >= 1
    /\ x.digits[1] = 49
    /\ \A i \in 2..x.length : x.digits[i] = 48

isValidInput2(str) ==
    IF Len(str) = 0 THEN FALSE
    ELSE LET start == IF str[1] = 45 THEN 1 ELSE 0
         IN IF start = 1 /\ Len(str) = 1 THEN FALSE
            ELSE \A i \in (start + 1)..Len(str) :
                    convertHexDigitToInt(str[i]) # -1

createFromString2(str) ==
    IF ~isValidInput2(str) THEN Throw2("InvalidInput")
    ELSE LET neg == str[1] = 45
             start == IF neg THEN 1 ELSE 0
             inputLength == Len(str) - start
         IN IF inputLength > HEX_SIZE2 THEN Throw2("Overflow")
            ELSE LET ds == [i \in 1..MAX_HEX_RESULT_SIZE |->
                               IF i <= inputLength
                               THEN str[start + inputLength - (i - 1)]
                               ELSE 48]
                 IN Ok2(BigHexInt2(ds, adjustLength2(ds, HEX_SIZE2), neg))

toString2(x) ==
    LET msb == adjustLength2(x.digits, x.length)
        body == [i \in 1..msb |-> x.digits[msb + 1 - i]]
    IN IF x.isNegative THEN <<45>> \o body ELSE body

\* The first difference from position HEX_SIZE - 1 down: 1 when a has the
\* greater digit, -1 when b has, 0 when there is none.
cmpDigits2(a, b) ==
    LET i == LastIn(LAMBDA k : convertHexDigitToInt(a.digits[k])
                                 # convertHexDigitToInt(b.digits[k]),
                    1, HEX_SIZE2)
    IN IF i < 1 THEN 0
       ELSE IF convertHexDigitToInt(a.digits[i])
                 > convertHexDigitToInt(b.digits[i])
            THEN 1 ELSE -1

compare2(a, b) ==
    IF a.isNegative /\ ~b.isNegative THEN -1
    ELSE IF ~a.isNegative /\ b.isNegative THEN 1
    ELSE IF a.isNegative THEN 0 - cmpDigits2(a, b)
    ELSE cmpDigits2(a, b)

\* HEX_DIGIT_STR[n]
hexDigitStr(n) == convertIntToHexChar(n)

\* The carry loop of operator+ over the HEX_SIZE positions, the carry digit
\* and the length adjustment (operands of equal sign).
addLoop2(a, b) ==
    LET done == FoldRange(
                   LAMBDA st, i :
                       LET sum == convertHexDigitToInt(a.digits[i + 1])
                                    + convertHexDigitToInt(b.digits[i + 1])
                                    + st.carry
                       IN [digits |-> [st.digits EXCEPT
                                          ![i + 1] = hexDigitStr(sum % 16)],
                           carry |-> sum \div 16],
                   [digits |-> Zeros2, carry |-> 0], 0, HEX_SIZE2)
        ds == IF done.carry > 0
              THEN [done.digits EXCEPT ![HEX_SIZE2 + 1] =
                                          hexDigitStr(done.carry)]
              ELSE done.digits
        actualLength == IF done.carry > 0 THEN HEX_SIZE2 + 1 ELSE HEX_SIZE2
    IN BigHexInt2(ds, adjustLength2(ds, actualLength), a.isNegative)

\* The borrow loop of operator- over the HEX_SIZE positions and the length
\* adjustment (operands of equal sign).
subLoop2(a, b) ==
    LET borrowLoop(larger, smaller) ==
            FoldRange(
                LAMBDA st, i :
                    LET diff == convertHexDigitToInt(larger.digits[i + 1])
                                  - convertHexDigitToInt(
                                        smaller.digits[i + 1])
                                  - st.borrow
                    IN [digits |-> [st.digits EXCEPT ![i + 1] =
                                       hexDigitStr(IF diff < 0
                                                   THEN diff + 16
                                                   ELSE diff)],
                        borrow |-> IF diff < 0 THEN 1 ELSE 0],
                [digits |-> Zeros2, borrow |-> 0], 0, HEX_SIZE2).digits
        adjusted(ds, neg) ==
            BigHexInt2(ds, adjustLength2(ds, HEX_SIZE2), neg)
        ordered(cmp) ==
            IF cmp >= 0 THEN adjusted(borrowLoop(a, b), a.isNegative)
            ELSE adjusted(borrowLoop(b, a), ~a.isNegative)
    IN ordered(cmpDigits2(a, b))

operatorPlus2(a, b) ==
    IF a.isNegative # b.isNegative
    THEN IF a.isNegative
         THEN Call("subLoop2", <<b, BigHexInt2(a.digits, a.length, FALSE)>>)
         ELSE Call("subLoop2", <<a, BigHexInt2(b.digits, b.length, FALSE)>>)
    ELSE Call("addLoop2", <<a, b>>)

operatorMinus2(a, b) ==
    IF a.isNegative # b.isNegative
    THEN Call("addLoop2", <<a, BigHexInt2(b.digits, b.length, ~b.isNegative)>>)
    ELSE Call("subLoop2", <<a, b>>)

clone2(x) ==
    BigHexInt2([i \in 1..MAX_HEX_RESULT_SIZE |->
                   IF i <= x.length THEN x.digits[i] ELSE 48],
               x.length, x.isNegative)

shiftLeft2(x, n) ==
    LET r == clone2(x)
    IN IF r.length + n > HEX_SIZE2 THEN Throw2("Overflow")
       ELSE Ok2(BigHexInt2(
                  [k \in 1..MAX_HEX_RESULT_SIZE |->
                      IF k <= n THEN 48
                      ELSE IF k <= r.length + n THEN r.digits[k - n]
                      ELSE r.digits[k]],
                  r.length + n, r.isNegative))

getLower2(x, n) ==
    LET actual == Min(x.length, n)
    IN BigHexInt2([i \in 1..MAX_HEX_RESULT_SIZE |->
                      IF i <= actual THEN x.digits[i] ELSE 48],
                  IF actual = 0 THEN 1 ELSE actual, FALSE)

getHigher2(x, n) ==
    IF x.length <= n THEN ZeroValue2
    ELSE BigHexInt2([i \in 1..MAX_HEX_RESULT_SIZE |->
                        IF i <= x.length - n THEN x.digits[i + n] ELSE 48],
                    x.length - n, FALSE)

pad2(x, targetLen) ==
    LET res == clone2(x)
    IN IF res.length < targetLen
       THEN BigHexInt2(res.digits, targetLen, res.isNegative)
       ELSE res

\* One iteration of the inner loop of multiplyNaive: st is the result array
\* and the carry, i and j the 0-based positions.
mulBody2(a_digit, other, i, st, j) ==
    LET b_digit == IF j < other.length
                   THEN convertHexDigitToInt(other.digits[j + 1]) ELSE 0
        current == convertHexDigitToInt(st.res[i + j + 1])
        prod == current + a_digit * b_digit + st.carry
    IN [res |-> [st.res EXCEPT ![i + j + 1] = hexDigitStr(prod % 16)],
        carry |-> prod \div 16]

RECURSIVE mulTail2(_, _, _, _, _)
mulTail2(a_digit, other, i, st, j) ==
    IF st.carry # 0
    THEN mulTail2(a_digit, other, i, mulBody2(a_digit, other, i, st, j),
                  j + 1)
    ELSE st

mulInner2(this, other, res, i) ==
    LET a_digit == convertHexDigitToInt(this.digits[i + 1])
        counted == FoldRange(
                      LAMBDA st, j : mulBody2(a_digit, other, i, st, j),
                      [res |-> res, carry |-> 0], 0, other.length)
    IN mulTail2(a_digit, other, i, counted, other.length).res

multiplyNaive2(this, other) ==
    IF this.length + other.length >= MAX_HEX_RESULT_SIZE
    THEN Throw2("Overflow")
    ELSE LET res == FoldRange(LAMBDA r, i : mulInner2(this, other, r, i),
                              Zeros2, 0, this.length)
         IN Ok2(BigHexInt2(res,
                           adjustLength2(res, this.length + other.length),
                           this.isNegative # other.isNegative))

MemoOk2(v, memo) == [err |-> "none", val |-> v, memo |-> memo]
MemoThrow2(e, memo) == [err |-> e, val |-> ZeroValue2, memo |-> memo]

memoKey2(this, other) ==
    LET sorted(thisStr, otherStr) ==
            IF StrGreater(thisStr, otherStr)
            THEN <<otherStr, thisStr>> ELSE <<thisStr, otherStr>>
    IN sorted(Call("toString2", <<this>>), Call("toString2", <<other>>))

\* z1 - z2 - z0, the two shifts, the two sums and the length adjustment.
combine2(z0, z1raw, z2, m) ==
    LET summed(sum) ==
            Ok2(BigHexInt2(sum.digits, adjustLength2(sum.digits, sum.length),
                           sum.isNegative))
        shifted2(part1, part2) ==
            IF part2.err # "none" THEN part2
            ELSE summed(Call("operatorPlus2", <<
                            Call("operatorPlus2", <<part1.val, part2.val>>), z0>>))
        shifted1(z1, part1) ==
            IF part1.err # "none" THEN part1
            ELSE shifted2(part1, Call("shiftLeft2", <<z1, m>>))
        reduced(z1) == shifted1(z1, Call("shiftLeft2", <<z2, 2 * m>>))
    IN reduced(Call("operatorMinus2", <<Call("operatorMinus2", <<z1raw, z2>>), z0>>))

RECURSIVE karatsuba2(_, _, _)
karatsuba2(this, other, memo) ==
    LET stored(key, result, table) ==
            IF result.err # "none" THEN MemoThrow2(result.err, table)
            ELSE MemoOk2(result.val,
                         memoStore(table, key, Call("toString2", <<result.val>>)))
        found(hit) == [err |-> hit.err, val |-> hit.val, memo |-> memo]
        third(key, m, z0, z2, z1) ==
            IF z1.err # "none" THEN MemoThrow2(z1.err, z1.memo)
            ELSE stored(key, Call("combine2", <<z0.val, z1.val, z2.val, m>>), z1.memo)
        second(key, m, low1, high1, low2, high2, z0, z2) ==
            IF z2.err # "none" THEN MemoThrow2(z2.err, z2.memo)
            ELSE third(key, m, z0, z2,
                       karatsuba2(Call("operatorPlus2", <<low1, high1>>),
                                  Call("operatorPlus2", <<low2, high2>>), z2.memo))
        first(key, m, low1, high1, low2, high2, z0) ==
            IF z0.err # "none" THEN MemoThrow2(z0.err, z0.memo)
            ELSE second(key, m, low1, high1, low2, high2, z0,
                        karatsuba2(high1, high2, z0.memo))
        halves(key, m, low1, high1, low2, high2) ==
            first(key, m, low1, high1, low2, high2,
                  karatsuba2(low1, low2, memo))
        padded(key, m, x, y) ==
            halves(key, m, Call("getLower2", <<x, m>>), Call("getHigher2", <<x, m>>),
                   Call("getLower2", <<y, m>>), Call("getHigher2", <<y, m>>))
        split(key, n) == padded(key, n \div 2, Call("pad2", <<this, n>>), Call("pad2", <<other, n>>))
        keyed(key) ==
            IF key \in DOMAIN memo
            THEN found(Call("createFromString2", <<memo[key]>>))
            ELSE IF (this.length = 1 /\ this.digits[1] = 48)
                    \/ (other.length = 1 /\ other.digits[1] = 48)
            THEN MemoOk2(ZeroValue2,
                         memoStore(memo, key, Call("toString2", <<ZeroValue2>>)))
            ELSE IF this.length <= KARATSUBA_THRESHOLD2
                    \/ other.length <= KARATSUBA_THRESHOLD2
            THEN stored(key, Call("multiplyNaive2", <<this, other>>), memo)
            ELSE split(key, Max(this.length, other.length))
    IN keyed(Call("memoKey2", <<this, other>>))

operatorTimes2(this, other, memo) ==
    LET signed(r) ==
            IF r.err # "none" THEN r
            ELSE MemoOk2(BigHexInt2(r.val.digits, r.val.length,
                                    this.isNegative # other.isNegative),
                         r.memo)
    IN signed(Call("karatsuba2", <<this, other, memo>>))

\* The first length entries of an array reversed, the others kept.
reversePrefix(ds, length) ==
    [i \in 1..Len(ds) |-> IF i <= length THEN ds[length + 1 - i] ELSE ds[i]]

\* while (currentDividend.compare(divisorAbs) >= 0)
\*     { currentDividend = currentDividend - divisorAbs; count++; }
RECURSIVE countLoop2(_, _, _)
countLoop2(currentDividend, divisorAbs, count) ==
    IF Call("compare2", <<currentDividend, divisorAbs>>) >= 0
    THEN countLoop2(Call("operatorMinus2", <<currentDividend, divisorAbs>>), divisorAbs,
                    count + 1)
    ELSE [cur |-> currentDividend, count |-> count]

\* One iteration of the digit loop of divide: the digit i of the dividend is
\* brought in and the divisor is subtracted as often as it fits.
divideBody2(dividend, divisorAbs, st, i) ==
    IF st.err # "none" THEN st
    ELSE
      LET cur == st.cur
          counted(found) ==
              IF found.count > 0 \/ st.quotientPos > 0
              THEN IF convertIntToHexChar(found.count) = -1
                   THEN [st EXCEPT !.err = "InvalidInput"]
                   ELSE [cur |-> found.cur,
                         quotient |-> [st.quotient EXCEPT
                                          ![st.quotientPos + 1] =
                                              convertIntToHexChar(
                                                  found.count)],
                         quotientPos |-> st.quotientPos + 1,
                         err |-> "none"]
              ELSE [st EXCEPT !.cur = found.cur]
      IN IF ~isZero2(cur)
         THEN counted(countLoop2(
                  BigHexInt2(
                      [k \in 1..MAX_HEX_RESULT_SIZE |->
                          IF k = 1 THEN dividend.digits[i + 1]
                          ELSE IF k <= cur.length + 1 THEN cur.digits[k - 1]
                          ELSE cur.digits[k]],
                      cur.length + 1, cur.isNegative),
                  divisorAbs, 0))
         ELSE counted(countLoop2(
                  BigHexInt2([cur.digits EXCEPT ![1] = dividend.digits[i + 1]],
                             1, cur.isNegative),
                  divisorAbs, 0))

DivOk2(q, r) == [err |-> "none", quotient |-> q, remainder |-> r]
DivThrow2(e) == [err |-> e, quotient |-> ZeroValue2, remainder |-> ZeroValue2]

divide2(this, divisor) ==
    IF isZero2(divisor) THEN DivThrow2("DivisionByZero")
    ELSE IF isZero2(this) THEN DivOk2(ZeroValue2, ZeroValue2)
    ELSE
      LET dividend == BigHexInt2(this.digits, this.length, FALSE)
          divisorAbs == BigHexInt2(divisor.digits, divisor.length, FALSE)
          finished(done) ==
              IF done.err # "none" THEN DivThrow2(done.err)
              ELSE DivOk2(
                     IF done.quotientPos = 0 THEN ZeroValue2
                     ELSE BigHexInt2(
                            reversePrefix(done.quotient, done.quotientPos),
                            done.quotientPos,
                            this.isNegative # divisor.isNegative),
                     BigHexInt2(done.cur.digits, done.cur.length,
                                this.isNegative /\ ~isZero2(done.cur)))
          compared(cmp) ==
              IF cmp = 0
              THEN DivOk2(BigHexInt2([Zeros2 EXCEPT ![1] = 49], 1,
                                     this.isNegative # divisor.isNegative),
                          ZeroValue2)
              ELSE IF cmp < 0 THEN DivOk2(ZeroValue2, this)
              ELSE finished(
                     FoldRange(
                         LAMBDA st, k :
                             divideBody2(dividend, divisorAbs, st,
                                         this.length - 1 - k),
                         [cur |-> ZeroValue2, quotient |-> Zeros2,
                          quotientPos |-> 0, err |-> "none"],
                         0, this.length))
      IN compared(Call("compare2", <<dividend, divisorAbs>>))

operatorDiv2(this, other) ==
    LET returned(d) == [err |-> d.err, val |-> d.quotient]
    IN returned(Call("divide2", <<this, other>>))

operatorMod2(this, other) ==
    LET returned(d) == [err |-> d.err, val |-> d.remainder]
    IN returned(Call("divide2", <<this, other>>))

isOdd(x) ==
    IF x.length = 0 THEN FALSE
    ELSE convertHexDigitToInt(x.digits[1]) % 2 = 1

\* Right shift by one bit: the digits are produced from the most
\* significant one, leading zeros are not written, and the digits written
\* are reversed at the end.
divideByTwo(x) ==
    IF isZero2(x) THEN Call("createFromString2", <<<<48>>>>).val
    ELSE
      LET halve(st, dv) ==
              IF dv \div 2 > 0 \/ st.resultLength > 0
              THEN [digits |-> [st.digits EXCEPT
                                   ![st.resultLength + 1] =
                                       convertIntToHexChar(dv \div 2)],
                    resultLength |-> st.resultLength + 1,
                    carry |-> dv % 2]
              ELSE [st EXCEPT !.carry = dv % 2]
          finished(done) ==
              IF done.resultLength = 0 THEN BigHexInt2(done.digits, 1, FALSE)
              ELSE BigHexInt2(reversePrefix(done.digits, done.resultLength),
                              done.resultLength, x.isNegative)
      IN finished(
             FoldRange(
                 LAMBDA st, k :
                     halve(st, convertHexDigitToInt(x.digits[x.length - k])
                                 + st.carry * 16),
                 [digits |-> Zeros2, resultLength |-> 0, carry |-> 0],
                 0, x.length))

\* (x * y) % modulus of the second implementation.
mulMod2(x, y, modulus, memo) ==
    LET reduced(prod, red) ==
            [err |-> red.err, val |-> red.val, memo |-> prod.memo]
        multiplied(prod) ==
            IF prod.err # "none" THEN MemoThrow2(prod.err, prod.memo)
            ELSE reduced(prod, Call("operatorMod2", <<prod.val, modulus>>))
    IN multiplied(Call("operatorTimes2", <<x, y, memo>>))

\* One iteration of the loop of modPow; st holds result, base, exp, the
\* memo table and the exception thrown so far.
modPowBody(st, modulus) ==
    LET squared(m1, sq) ==
            IF sq.err # "none"
            THEN [st EXCEPT !.err = sq.err, !.memo = sq.memo]
            ELSE [result |-> m1.val, base |-> sq.val,
                  exp |-> Call("divideByTwo", <<st.exp>>), memo |-> sq.memo,
                  err |-> "none"]
        multiplied(m1) ==
            IF m1.err # "none"
            THEN [st EXCEPT !.err = m1.err, !.memo = m1.memo]
            ELSE squared(m1, Call("mulMod2", <<st.base, st.base, modulus, m1.memo>>))
    IN IF isOdd(st.exp)
       THEN multiplied(Call("mulMod2", <<st.result, st.base, modulus, st.memo>>))
       ELSE multiplied(MemoOk2(st.result, st.memo))

\* while (!exp.isZero())
RECURSIVE modPowLoop(_, _)
modPowLoop(st, modulus) ==
    IF st.err = "none" /\ ~isZero2(st.exp)
    THEN modPowLoop(modPowBody(st, modulus), modulus)
    ELSE st

\* The working base of modPow: base % modulus, and modulus - (|base| %
\* modulus) for a negative base.
positiveBase(this, modulus) ==
    LET reduced(r) ==
            IF r.err = "none" /\ this.isNegative
            THEN [err |-> "none", val |-> Call("operatorMinus2", <<modulus, r.val>>)]
            ELSE [err |-> r.err, val |-> r.val]
    IN reduced(Call("operatorMod2", <<BigHexInt2(this.digits, this.length, FALSE),
                                      modulus>>))

\* this->modPow(exponent, modulus)
modPow(this, exponent, modulus, memo) ==
    LET looped(done) ==
            IF done.err # "none" THEN MemoThrow2(done.err, done.memo)
            ELSE MemoOk2(done.result, done.memo)
        started(base) ==
            IF isZero2(base)
            THEN MemoOk2(Call("createFromString2", <<<<48>>>>).val, memo)
            ELSE looped(modPowLoop([result |-> Call("createFromString2", <<<<49>>>>).val,
                                    base |-> base, exp |-> exponent,
                                    memo |-> memo, err |-> "none"],
                                   modulus))
        reduced(r) ==
            IF r.err # "none" THEN MemoThrow2(r.err, memo)
            ELSE started(r.val)
    IN IF isZero2(modulus)
       THEN MemoThrow2("invalid_argument: Modulus cannot be zero", memo)
       ELSE IF isOne2(modulus)
            THEN MemoOk2(Call("createFromString2", <<<<48>>>>).val, memo)
       ELSE IF isZero2(exponent)
            THEN MemoOk2(Call("createFromString2", <<<<49>>>>).val, memo)
       ELSE IF isZero2(this)
            THEN MemoOk2(Call("createFromString2", <<<<48>>>>).val, memo)
       ELSE IF exponent.isNegative
            THEN MemoThrow2("invalid_argument: Negative exponents not supported",
                            memo)
       ELSE reduced(Call("positiveBase", <<this, modulus>>))

(* Every call from one member function to another goes through Call, which
   stands for the call instruction: it selects the callee by name and hands
   it the arguments in order. *)
Call(f, args) ==
    CASE f = "createFromString" -> createFromString(args[1])
      [] f = "toString" -> toString(args[1])
      [] f = "compare" -> compare(args[1], args[2])
      [] f = "addLoop" -> addLoop(args[1], args[2])
      [] f = "subLoop" -> subLoop(args[1], args[2])
      [] f = "minusSameSign" -> minusSameSign(args[1], args[2])
      [] f = "operatorPlus" -> operatorPlus(args[1], args[2])
      [] f = "operatorMinus" -> operatorMinus(args[1], args[2])
      [] f = "shiftLeft" -> shiftLeft(args[1], args[2])
      [] f = "pad" -> pad(args[1], args[2])
      [] f = "getLower" -> getLower(args[1], args[2])
      [] f = "getHigher" -> getHigher(args[1], args[2])
      [] f = "multiplyNaive" -> multiplyNaive(args[1], args[2])
      [] f = "karatsuba" -> karatsuba(args[1], args[2], args[3])
      [] f = "combine" -> combine(args[1], args[2], args[3], args[4], args[5], args[6])
      [] f = "memoKey" -> memoKey(args[1], args[2])
      [] f = "divide" -> divide(args[1], args[2])
      [] f = "operatorDiv" -> operatorDiv(args[1], args[2])
      [] f = "operatorMod" -> operatorMod(args[1], args[2])
      [] f = "operatorTimes" -> operatorTimes(args[1], args[2], args[3])
      [] f = "mulMod" -> mulMod(args[1], args[2], args[3], args[4])
      [] f = "modPower" -> modPower(args[1], args[2], args[3], args[4])
      [] f = "generateRandom" -> generateRandom(args[1])
      [] f = "subtractOne" -> subtractOne(args[1])
      [] f = "randomDraws" -> randomDraws(args[1])
      [] f = "generateRandomBigHexIntInRange" -> generateRandomBigHexIntInRange(args[1], args[2])
      [] f = "oddPart" -> oddPart(args[1], args[2])
      [] f = "afterSquaring" -> afterSquaring(args[1], args[2])
      [] f = "squarings" -> squarings(args[1], args[2], args[3], args[4], args[5], args[6])
      [] f = "millerRabinStart" -> millerRabinStart(args[1], args[2])
      [] f = "addOne" -> addOne(args[1])
      [] f = "smallPrimeSieve" -> smallPrimeSieve(args[1])
      [] f = "millerRabinRound" -> millerRabinRound(args[1], args[2])
      [] f = "createFromString2" -> createFromString2(args[1])
      [] f = "toString2" -> toString2(args[1])
      [] f = "compare2" -> compare2(args[1], args[2])
      [] f = "addLoop2" -> addLoop2(args[1], args[2])
      [] f = "subLoop2" -> subLoop2(args[1], args[2])
      [] f = "operatorPlus2" -> operatorPlus2(args[1], args[2])
      [] f = "operatorMinus2" -> operatorMinus2(args[1], args[2])
      [] f = "shiftLeft2" -> shiftLeft2(args[1], args[2])
      [] f = "pad2" -> pad2(args[1], args[2])
      [] f = "getLower2" -> getLower2(args[1], args[2])
      [] f = "getHigher2" -> getHigher2(args[1], args[2])
      [] f = "multiplyNaive2" -> multiplyNaive2(args[1], args[2])
      [] f = "karatsuba2" -> karatsuba2(args[1], args[2], args[3])
      [] f = "combine2" -> combine2(args[1], args[2], args[3], args[4])
      [] f = "memoKey2" -> memoKey2(args[1], args[2])
      [] f = "divide2" -> divide2(args[1], args[2])
      [] f = "operatorDiv2" -> operatorDiv2(args[1], args[2])
      [] f = "operatorMod2" -> operatorMod2(args[1], args[2])
      [] f = "operatorTimes2" -> operatorTimes2(args[1], args[2], args[3])
      [] f = "divideByTwo" -> divideByTwo(args[1])
      [] f = "mulMod2" -> mulMod2(args[1], args[2], args[3], args[4])
      [] f = "positiveBase" -> positiveBase(args[1], args[2])
      [] f = "modPow" -> modPow(args[1], args[2], args[3], args[4])

(***************************************************************************)
(* The state                                                               *)
(***************************************************************************)
VARIABLES
    karatsubaMemo,  \* the process-wide memo table
    memoBefore,     \* the memo table as the last call found it
    pc,             \* where the driver is
    op,             \* the operation of the last call
    num1_str,       \* the two literals read by the calculator
    num2_str,
    a,              \* the operands of the last call
    b,
    c,
    result,         \* what the last call returned or threw
    calls,          \* the number of calls made so far
    mr,             \* the locals of millerRabinTest
    dh,             \* the keys and secrets of the key exchange
    gen             \* the locals of generatePrime

vars == <<karatsubaMemo, memoBefore, pc, op, num1_str, num2_str, a, b, c,
          result, calls, mr, dh, gen>>

EmptyMemo == [k \in {} |-> <<>>]
Pending == [err |-> "pending", val |-> ZeroValue]
NoMR == [pc |-> "off"]
NoDH == [pc |-> "off"]
NoGen == [pc |-> "off"]

\* The text of a literal from its digits, most significant first.
Hex(ds) == [i \in 1..Len(ds) |-> convertIntToHexChar(ds[i])]
Minus(str) == <<45>> \o str
Repeat(ch, n) == [i \in 1..n |-> ch]

(***************************************************************************)
(* The hexadecimal calculator: one test case of main().  Two literals are  *)
(* read, the operands are constructed, one operator is applied.            *)
(***************************************************************************)
Literals ==
    { Hex(<<0>>), Minus(Hex(<<0>>)), Hex(<<1>>), Hex(<<2>>),
      Hex(<<3>>), Minus(Hex(<<3>>)), Hex(<<5>>), Minus(Hex(<<5>>)),
      Hex(<<7>>), Minus(Hex(<<7>>)), Hex(<<15>>), Hex(<<15, 15>>),
      Hex(<<1, 0, 0>>), Minus(Hex(<<1, 0, 0>>)), Hex(<<15, 15, 15>>),
      Hex(<<0, 0, 7>>), Minus(Hex(<<0, 0, 7>>)), Minus(Hex(<<0, 0, 0>>)),
      <<48, 65>>,                       \* "0A"
      <<>>,                             \* ""
      <<45>>,                           \* "-"
      <<49, 103>> }                     \* "1g"

\* Literals at and beyond the capacity, and the literals they are paired
\* with.
LongLiterals ==
    { Repeat(102, HEX_SIZE),            \* "ff...f", HEX_SIZE digits
      Minus(<<48>> \o Repeat(102, HEX_SIZE - 1)),
                                        \* "-0ff...f", HEX_SIZE digits
      <<49>> \o Repeat(48, HEX_SIZE),   \* "100...0", HEX_SIZE + 1 digits
      Repeat(102, HEX_SIZE + 2),        \* "ff...f", HEX_SIZE + 2 digits
      Repeat(48, HEX_SIZE + 1) \o <<102>> }
                                        \* "00...0f", HEX_SIZE + 2 characters

LongPartners ==
    { Hex(<<0>>), Hex(<<1>>), Minus(Hex(<<5>>)), Repeat(102, HEX_SIZE) }

CalcInputs ==
    (Literals \X Literals) \cup (LongLiterals \X LongPartners)
        \cup (LongPartners \X LongLiterals)

CalcInit ==
    /\ karatsubaMemo = EmptyMemo
    /\ memoBefore = EmptyMemo
    /\ pc = "read"
    /\ op = "none"
    /\ \E input \in CalcInputs : num1_str = input[1] /\ num2_str = input[2]
    /\ a = Pending
    /\ b = Pending
    /\ c = Pending
    /\ result = Pending
    /\ calls = 0
    /\ mr = NoMR
    /\ dh = NoDH
    /\ gen = NoGen

\* BigHexInt a(num1_str), b(num2_str): the first constructor that throws
\* ends the test case.
Construct ==
    /\ pc = "read"
    /\ a' = Call("createFromString", <<num1_str>>)
    /\ b' = IF a'.err = "none" THEN Call("createFromString", <<num2_str>>) ELSE Pending
    /\ pc' = IF a'.err = "none" /\ b'.err = "none" THEN "ready" ELSE "error"
    /\ result' = IF a'.err # "none" THEN a'
                 ELSE IF b'.err # "none" THEN b' ELSE Pending
    /\ UNCHANGED <<karatsubaMemo, memoBefore, op, num1_str, num2_str, c,
                   calls, mr, dh, gen>>

OpAdd ==
    /\ pc = "ready"
    /\ op' = "add"
    /\ result' = Call("operatorPlus", <<a.val, b.val>>)
    /\ pc' = "done"
    /\ UNCHANGED <<karatsubaMemo, memoBefore, num1_str, num2_str, a, b, c,
                   calls, mr, dh, gen>>

OpSub ==
    /\ pc = "ready"
    /\ op' = "sub"
    /\ result' = Call("operatorMinus", <<a.val, b.val>>)
    /\ pc' = "done"
    /\ UNCHANGED <<karatsubaMemo, memoBefore, num1_str, num2_str, a, b, c,
                   calls, mr, dh, gen>>

OpMul ==
    /\ pc = "ready"
    /\ op' = "mul"
    /\ LET returned(r) == /\ result' = [err |-> r.err, val |-> r.val]
                          /\ karatsubaMemo' = r.memo
       IN returned(Call("operatorTimes", <<a.val, b.val, karatsubaMemo>>))
    /\ memoBefore' = karatsubaMemo
    /\ pc' = "done"
    /\ UNCHANGED <<num1_str, num2_str, a, b, c, calls, mr, dh, gen>>

\* operator/ and operator% both run divide; the outcome keeps the quotient
\* and the remainder of that run.
OpDiv ==
    /\ pc = "ready"
    /\ op' = "div"
    /\ LET returned(d) ==
               result' = [err |-> d.err, val |-> d.quotient,
                          quotient |-> d.quotient, remainder |-> d.remainder]
       IN returned(Call("divide", <<a.val, b.val>>))
    /\ pc' = "done"
    /\ UNCHANGED <<karatsubaMemo, memoBefore, num1_str, num2_str, a, b, c,
                   calls, mr, dh, gen>>

OpMod ==
    /\ pc = "ready"
    /\ op' = "mod"
    /\ LET returned(d) ==
               result' = [err |-> d.err, val |-> d.remainder,
                          quotient |-> d.quotient, remainder |-> d.remainder]
       IN returned(Call("divide", <<a.val, b.val>>))
    /\ pc' = "done"
    /\ UNCHANGED <<karatsubaMemo, memoBefore, num1_str, num2_str, a, b, c,
                   calls, mr, dh, gen>>

Next == Construct \/ OpAdd \/ OpSub \/ OpMul \/ OpDiv \/ OpMod

Spec == CalcInit /\ [][Next]_vars

(***************************************************************************)
(* The calculator as a loop of '*' test cases: main() runs test case after *)
(* test case in one process, so every multiplication finds the memo table  *)
(* as the earlier ones left it.                                            *)
(***************************************************************************)
MaxCalls == 2

\* Operands at and above KARATSUBA_THRESHOLD digits, of both signs, a longer
\* one, and one whose products exceed the capacity.
MulOperands ==
    { Hex(<<9, 0, 15, 15, 0, 0, 0, 1, 0, 0, 0, 0, 0, 0, 2, 3, 4>>),
      Minus(Hex(<<15, 14, 13, 12, 11, 10, 9, 8, 7>>)),
      Hex(<<8, 9, 10, 11, 12, 13, 14, 15>>),
      Hex(<<1>> \o Repeat(0, HEX_SIZE - 9)) }

MulInit ==
    /\ karatsubaMemo = EmptyMemo
    /\ memoBefore = EmptyMemo
    /\ pc = "loop"
    /\ op = "none"
    /\ num1_str = <<>>
    /\ num2_str = <<>>
    /\ a = Pending
    /\ b = Pending
    /\ c = Pending
    /\ result = Pending
    /\ calls = 0
    /\ mr = NoMR
    /\ dh = NoDH
    /\ gen = NoGen

\* One '*' test case: the literals are read, the operands are constructed
\* and multiplied.
Multiply ==
    /\ pc = "loop"
    /\ calls < MaxCalls
    /\ \E x \in MulOperands, y \in MulOperands :
          /\ num1_str' = x
          /\ num2_str' = y
    /\ a' = Call("createFromString", <<num1_str'>>)
    /\ b' = Call("createFromString", <<num2_str'>>)
    /\ LET returned(r) == /\ result' = [err |-> r.err, val |-> r.val]
                          /\ karatsubaMemo' = r.memo
       IN returned(Call("operatorTimes", <<a'.val, b'.val, karatsubaMemo>>))
    /\ memoBefore' = karatsubaMemo
    /\ op' = "mul"
    /\ calls' = calls + 1
    /\ UNCHANGED <<pc, c, mr, dh, gen>>

NextMul == Multiply

SpecMul == MulInit /\ [][NextMul]_vars

(***************************************************************************)
(* Modular exponentiation as a library call: modPower of BigIntv1.cpp in   *)
(* one program, modPow of unnamed/part_000 in the other.  A behaviour is   *)
(* one call in a program that has not multiplied before.                   *)
(***************************************************************************)
PowBases == { Hex(<<0>>), Hex(<<2>>), Hex(<<7>>), Minus(Hex(<<7>>)),
              Hex(<<15, 15>>) }
PowExponents == { Hex(<<0>>), Hex(<<1>>), Hex(<<1, 0>>), Hex(<<1, 11>>),
                  Minus(Hex(<<3>>)) }
PowModuli == { Hex(<<0>>), Hex(<<1>>), Hex(<<2>>), Hex(<<13>>),
               Hex(<<1, 0, 0>>) }

\* Operands whose products go through karatsuba, a 33-digit modulus with an
\* 11-digit base, and operands whose products are beyond the capacity of
\* the second and of the first implementation; and a negative multiple of
\* the modulus, -1a = -2 * d; and a 13-digit base with a 3-digit modulus.
PowLong ==
    { <<Hex(<<1, 2, 3, 4, 5, 6, 7, 8, 9>>), Hex(<<5>>),
        Hex(Repeat(15, 7) \o <<14, 15>>)>>,
      <<Hex(<<6, 5, 9, 7, 15, 10, 9, 4, 15, 5, 12>>), Hex(<<7>>),
        Hex(Repeat(15, 10) \o <<6, 11, 11, 13, 13, 2, 1, 8, 12, 5, 1, 11,
                                11, 0, 1, 5, 2, 10, 14, 0, 6, 14, 6>>)>>,
      <<Hex(Repeat(15, 31) \o <<14, 0>>), Hex(<<2>>),
        Hex(Repeat(15, 32) \o <<1>>)>>,
      <<Hex(<<1>> \o Repeat(0, HEX_SIZE2)), Hex(<<2>>),
        Hex(Repeat(15, HEX_SIZE2 + 1))>>,
      <<Minus(Hex(<<1, 10>>)), Hex(<<3>>), Hex(<<13>>)>>,
      <<Hex(<<15, 14, 13, 12, 11, 10, 9, 8, 7, 6, 5, 4, 3>>), Hex(<<1>>),
        Hex(<<1, 11, 3>>)>> }

PowInputs == (PowBases \X PowExponents \X PowModuli) \cup PowLong

PowInit ==
    /\ karatsubaMemo = EmptyMemo
    /\ memoBefore = EmptyMemo
    /\ pc \in {"modPower", "modPow"}
    /\ op = "none"
    /\ num1_str = <<>>
    /\ num2_str = <<>>
    /\ a = Pending
    /\ b = Pending
    /\ c = Pending
    /\ result = Pending
    /\ calls = 0
    /\ mr = NoMR
    /\ dh = NoDH
    /\ gen = NoGen

\* The first of the three constructions that throws, "none" when none does.
firstError(x, y, z) ==
    IF x.err # "none" THEN x.err
    ELSE IF y.err # "none" THEN y.err
    ELSE z.err

\* BigHexInt base(..), exponent(..), modulus(..); base.modPower(exponent,
\* modulus) in the program of BigIntv1.cpp.
ModPower ==
    /\ pc = "modPower"
    /\ calls = 0
    /\ \E input \in PowInputs :
          /\ a' = Call("createFromString", <<input[1]>>)
          /\ b' = Call("createFromString", <<input[2]>>)
          /\ c' = Call("createFromString", <<input[3]>>)
    /\ LET returned(r) == /\ result' = [err |-> r.err, val |-> r.val]
                          /\ karatsubaMemo' = r.memo
       IN IF firstError(a', b', c') # "none"
          THEN returned(MemoThrow(firstError(a', b', c'), karatsubaMemo))
          ELSE returned(Call("modPower", <<a'.val, b'.val, c'.val, karatsubaMemo>>))
    /\ memoBefore' = karatsubaMemo
    /\ op' = "modPower"
    /\ calls' = calls + 1
    /\ UNCHANGED <<pc, num1_str, num2_str, mr, dh, gen>>

\* The same call in the program of unnamed/part_000: base.modPow(exponent,
\* modulus).
ModPow ==
    /\ pc = "modPow"
    /\ calls = 0
    /\ \E input \in PowInputs :
          /\ a' = Call("createFromString2", <<input[1]>>)
          /\ b' = Call("createFromString2", <<input[2]>>)
          /\ c' = Call("createFromString2", <<input[3]>>)
    /\ LET returned(r) == /\ result' = [err |-> r.err, val |-> r.val]
                          /\ karatsubaMemo' = r.memo
       IN IF firstError(a', b', c') # "none"
          THEN returned(MemoThrow2(firstError(a', b', c'), karatsubaMemo))
          ELSE returned(Call("modPow", <<a'.val, b'.val, c'.val, karatsubaMemo>>))
    /\ memoBefore' = karatsubaMemo
    /\ op' = "modPow"
    /\ calls' = calls + 1
    /\ UNCHANGED <<pc, num1_str, num2_str, mr, dh, gen>>

NextModPow == ModPower \/ ModPow

SpecModPow == PowInit /\ [][NextModPow]_vars

(***************************************************************************)
(* The calculator and the exponentiation calls together: the operations of *)
(* the library that divide.                                                *)
(***************************************************************************)
InitLibrary == CalcInit \/ PowInit

NextLibrary == Next \/ NextModPow

SpecLibrary == InitLibrary /\ [][NextLibrary]_vars

(***************************************************************************)
(* generateRandom as a library call: a digit count is chosen and one of    *)
(* the values the random source can produce is returned.                   *)
(***************************************************************************)

\* Digit counts below, in and beyond the valid range.
RandomDigitCounts == (-1..MaxRandomDigits) \cup {HEX_SIZE + 1}

RandomInit ==
    /\ karatsubaMemo = EmptyMemo
    /\ memoBefore = EmptyMemo
    /\ pc = "random"
    /\ op = "none"
    /\ num1_str = <<>>
    /\ num2_str = <<>>
    /\ a = Pending
    /\ b = Pending
    /\ c = Pending
    /\ result = Pending
    /\ calls = 0
    /\ mr = NoMR
    /\ dh = NoDH
    /\ gen = NoGen

\* BigHexInt::generateRandom(numHexDigits); the digit count is kept with the
\* outcome.
GenerateRandom ==
    /\ pc = "random"
    /\ \E n \in RandomDigitCounts :
          \E r \in Call("generateRandom", <<n>>) :
              result' = [err |-> r.err, val |-> r.val, numHexDigits |-> n]
    /\ op' = "generateRandom"
    /\ pc' = "generated"
    /\ UNCHANGED <<karatsubaMemo, memoBefore, num1_str, num2_str, a, b, c,
                   calls, mr, dh, gen>>

NextRandom == GenerateRandom

SpecRandom == RandomInit /\ [][NextRandom]_vars

(***************************************************************************)
(* compare as a library call: two literals are parsed and the values are   *)
(* compared.                                                               *)
(***************************************************************************)
CompareInit ==
    /\ karatsubaMemo = EmptyMemo
    /\ memoBefore = EmptyMemo
    /\ pc = "compare"
    /\ op = "none"
    /\ \E input \in CalcInputs : num1_str = input[1] /\ num2_str = input[2]
    /\ a = Pending
    /\ b = Pending
    /\ c = Pending
    /\ result = Pending
    /\ calls = 0
    /\ mr = NoMR
    /\ dh = NoDH
    /\ gen = NoGen

\* BigHexInt a(num1_str), b(num2_str); a.compare(b).  The order is kept in
\* the field order of the outcome.
Compare ==
    /\ pc = "compare"
    /\ a' = Call("createFromString", <<num1_str>>)
    /\ b' = Call("createFromString", <<num2_str>>)
    /\ result' = IF firstError(a', b', b') # "none"
                 THEN [err |-> firstError(a', b', b'), val |-> ZeroValue,
                       order |-> 0]
                 ELSE [err |-> "none", val |-> ZeroValue,
                       order |-> Call("compare", <<a'.val, b'.val>>)]
    /\ op' = "compare"
    /\ pc' = "compared"
    /\ UNCHANGED <<karatsubaMemo, memoBefore, num1_str, num2_str, c, calls,
                   mr, dh, gen>>

NextCompare == Compare

SpecCompare == CompareInit /\ [][NextCompare]_vars

(***************************************************************************)
(* The Miller-Rabin test as a library call: n.millerRabinTest(k).  The     *)
(* call is followed statement by statement: the early returns and the      *)
(* decomposition of n - 1, then one step for each round of the loop, then  *)
(* the return after the last round.  mr holds the locals of the call.      *)
(***************************************************************************)
MaxIterations == 3

\* The NIST P-384 prime 2^384 - 2^128 - 2^96 + 2^32 - 1, 96 hexadecimal
\* digits.
P384 == Hex(Repeat(15, 63) \o <<14>> \o Repeat(15, 8) \o Repeat(0, 16)
            \o Repeat(15, 8))

MRCandidates ==
    { Minus(Hex(<<7>>)), Hex(<<0>>), Hex(<<1>>), Hex(<<2>>), Hex(<<3>>),
      Hex(<<4>>), Hex(<<5>>), Hex(<<7>>), Hex(<<9>>), Hex(<<15>>),
      Hex(<<1, 9>>), Hex(<<1, 11>>), Hex(<<1, 13>>), Hex(<<2, 5>>),
      Hex(<<3, 1>>), Hex(<<3, 13>>), P384 }

MRInit ==
    /\ karatsubaMemo = EmptyMemo
    /\ memoBefore = EmptyMemo
    /\ pc = "millerRabinTest"
    /\ op = "none"
    /\ num1_str = <<>>
    /\ num2_str = <<>>
    /\ a = Pending
    /\ b = Pending
    /\ c = Pending
    /\ result = Pending
    /\ calls = 0
    /\ mr = NoMR
    /\ dh = NoDH
    /\ gen = NoGen

\* BigHexInt n(..); n.millerRabinTest(k), up to the loop over the rounds.
MRStart ==
    /\ pc = "millerRabinTest"
    /\ mr = NoMR
    /\ \E literal \in MRCandidates, k \in 0..MaxIterations :
          /\ num1_str' = literal
          /\ mr' = Call("millerRabinStart",
                        <<Call("createFromString", <<literal>>).val, k>>)
    /\ op' = "millerRabinTest"
    /\ UNCHANGED <<karatsubaMemo, memoBefore, pc, num2_str, a, b, c, result,
                   calls, dh, gen>>

\* One round of the loop, with the witness the generator draws.
MRRound ==
    /\ pc = "millerRabinTest"
    /\ mr.pc = "loop"
    /\ mr.i < mr.k
    /\ \E round \in Call("millerRabinRound", <<mr, karatsubaMemo>>) :
          /\ mr' = round.mr
          /\ karatsubaMemo' = round.memo
    /\ memoBefore' = karatsubaMemo
    /\ UNCHANGED <<pc, op, num1_str, num2_str, a, b, c, result, calls, dh, gen>>

\* return true after the last round.
MRAccept ==
    /\ pc = "millerRabinTest"
    /\ mr.pc = "loop"
    /\ mr.i >= mr.k
    /\ mr' = MRReturned(mr.n, mr.k, TRUE)
    /\ UNCHANGED <<karatsubaMemo, memoBefore, pc, op, num1_str, num2_str, a,
                   b, c, result, calls, dh, gen>>

NextMR == MRStart \/ MRRound \/ MRAccept

SpecMR == MRInit /\ [][NextMR]_vars

(***************************************************************************)
(* The key exchange of runDiffieHellmanSimulation from the two public keys *)
(* on: A = g^a mod p, B = g^b mod p, S_A = B^a mod p, S_B = A^b mod p and   *)
(* the comparison of the two secrets.  The prime, the base and the private *)
(* keys are drawn from DHInputs, and the exchange starts with the memo     *)
(* table as an earlier product of the program has left it, or empty.       *)
(***************************************************************************)
\* Short primes, bases and private keys in every combination; a 9-digit
\* modulus with a 9-digit base, whose products go through karatsuba and the
\* memo table; a 65-digit modulus, whose squares are beyond the capacity.
\* An input is <<p, g, a, b>>.
DHInputs ==
    LET primes == { Hex(<<2>>), Hex(<<1, 7>>), Hex(<<3, 13>>) }
        bases == { Hex(<<0>>), Hex(<<7>>), Hex(<<2, 10>>) }
        privateKeys == { Hex(<<0>>), Hex(<<1>>), Hex(<<6>>), Hex(<<1, 11>>) }
    IN (primes \X bases \X privateKeys \X privateKeys)
       \cup { <<Hex(Repeat(15, 7) \o <<14, 15>>),
                Hex(<<1, 2, 3, 4, 5, 6, 7, 8, 9>>), Hex(<<5>>), Hex(<<3>>)>>,
              <<Hex(Repeat(15, 65)), Hex(Repeat(14, 65)), Hex(<<2>>),
                Hex(<<3>>)>> }

DHInit ==
    /\ karatsubaMemo = EmptyMemo
    /\ memoBefore = EmptyMemo
    /\ pc = "runDiffieHellmanSimulation"
    /\ op = "none"
    /\ num1_str = <<>>
    /\ num2_str = <<>>
    /\ a = Pending
    /\ b = Pending
    /\ c = Pending
    /\ result = Pending
    /\ calls = 0
    /\ mr = NoMR
    /\ dh = NoDH
    /\ gen = NoGen

\* p, g and the private keys a and b are there; the memo table is empty or
\* holds what the product g * g has left.
DHKeys ==
    /\ pc = "runDiffieHellmanSimulation"
    /\ dh = NoDH
    /\ \E input \in DHInputs, warm \in BOOLEAN :
          /\ dh' = [pc |-> "A",
                    p |-> Call("createFromString", <<input[1]>>).val,
                    g |-> Call("createFromString", <<input[2]>>).val,
                    a |-> Call("createFromString", <<input[3]>>).val,
                    b |-> Call("createFromString", <<input[4]>>).val,
                    A |-> zero, B |-> zero, SA |-> zero, SB |-> zero,
                    err |-> "none", match |-> FALSE]
          /\ karatsubaMemo' =
                IF warm
                THEN Call("operatorTimes", <<dh'.g, dh'.g, EmptyMemo>>).memo
                ELSE EmptyMemo
    /\ memoBefore' = karatsubaMemo
    /\ UNCHANGED <<pc, op, num1_str, num2_str, a, b, c, result, calls, mr, gen>>

\* The next of the four calls of modPower: A = g.modPower(a, p),
\* B = g.modPower(b, p), S_A = B.modPower(a, p), S_B = A.modPower(b, p).
\* dh.pc names the value the call computes.
DHModPower ==
    /\ pc = "runDiffieHellmanSimulation"
    /\ dh.pc \in {"A", "B", "SA", "SB"}
    /\ LET base == CASE dh.pc = "A" -> dh.g
                     [] dh.pc = "B" -> dh.g
                     [] dh.pc = "SA" -> dh.B
                     [] dh.pc = "SB" -> dh.A
           exponent == IF dh.pc \in {"A", "SA"} THEN dh.a ELSE dh.b
           next == CASE dh.pc = "A" -> "B"
                     [] dh.pc = "B" -> "SA"
                     [] dh.pc = "SA" -> "SB"
                     [] dh.pc = "SB" -> "verify"
           returned(r) ==
               /\ dh' = IF r.err # "none"
                        THEN [dh EXCEPT !.pc = "thrown", !.err = r.err]
                        ELSE [dh EXCEPT ![dh.pc] = r.val, !.pc = next]
               /\ karatsubaMemo' = r.memo
       IN returned(Call("modPower", <<base, exponent, dh.p, karatsubaMemo>>))
    /\ memoBefore' = karatsubaMemo
    /\ op' = "modPower"
    /\ UNCHANGED <<pc, num1_str, num2_str, a, b, c, result, calls, mr, gen>>

\* if (alice_shared_secret_SA.compare(bob_shared_secret_SB) == 0)
DHVerify ==
    /\ pc = "runDiffieHellmanSimulation"
    /\ dh.pc = "verify"
    /\ dh' = [dh EXCEPT !.pc = "done",
                        !.match = Call("compare", <<dh.SA, dh.SB>>) = 0]
    /\ op' = "compare"
    /\ UNCHANGED <<karatsubaMemo, memoBefore, pc, num1_str, num2_str, a, b,
                   c, result, calls, mr, gen>>

NextDH == DHKeys \/ DHModPower \/ DHVerify

SpecDH == DHInit /\ [][NextDH]_vars

(***************************************************************************)
(* generatePrime(numHexDigits, millerRabinIterations): a candidate is      *)
(* drawn, sieved and handed to millerRabinTest, whose rounds are the       *)
(* actions MRRound and MRAccept; gen.pc tells how the loop has come back   *)
(* to its head.                                                            *)
(***************************************************************************)
PrimeInit ==
    /\ karatsubaMemo = EmptyMemo
    /\ memoBefore = EmptyMemo
    /\ pc = "generatePrime"
    /\ op = "none"
    /\ num1_str = <<>>
    /\ num2_str = <<>>
    /\ a = Pending
    /\ b = Pending
    /\ c = Pending
    /\ result = Pending
    /\ calls = 0
    /\ mr = NoMR
    /\ dh = NoDH
    /\ \E numHexDigits \in 0..MaxRandomDigits, millerRabinIterations \in 0..1 :
          gen = [pc |-> "start", candidate |-> ZeroValue,
                 numHexDigits |-> numHexDigits,
                 millerRabinIterations |-> millerRabinIterations]

\* candidate = BigHexInt::generateRandom(numHexDigits) at the head of the
\* loop: at the start, after a candidate the sieve has eliminated, and
\* after candidate = candidate.addOne().addOne().
GPDraw ==
    /\ pc = "generatePrime"
    /\ gen.pc \in {"start", "eliminated", "incremented"}
    /\ \E drawn \in Call("generateRandom", <<gen.numHexDigits>>) :
          gen' = IF drawn.err # "none"
                 THEN [gen EXCEPT !.pc = "thrown"]
                 ELSE [gen EXCEPT !.pc = "sieve", !.candidate = drawn.val]
    /\ UNCHANGED <<karatsubaMemo, memoBefore, pc, op, num1_str, num2_str, a,
                   b, c, result, calls, mr, dh>>

\* The small-prime sieve: continue, or go on to millerRabinTest.
GPSieve ==
    /\ pc = "generatePrime"
    /\ gen.pc = "sieve"
    /\ gen' = [gen EXCEPT !.pc =
                  IF Call("smallPrimeSieve", <<gen.candidate>>) = "continue"
                  THEN "eliminated" ELSE "test"]
    /\ UNCHANGED <<karatsubaMemo, memoBefore, pc, op, num1_str, num2_str, a,
                   b, c, result, calls, mr, dh>>

\* candidate.millerRabinTest(millerRabinIterations) is called.
GPTest ==
    /\ pc = "generatePrime"
    /\ gen.pc = "test"
    /\ mr' = Call("millerRabinStart",
                  <<gen.candidate, gen.millerRabinIterations>>)
    /\ pc' = "millerRabinTest"
    /\ gen' = [gen EXCEPT !.pc = "testing"]
    /\ UNCHANGED <<karatsubaMemo, memoBefore, op, num1_str, num2_str, a, b,
                   c, result, calls, dh>>

\* millerRabinTest has returned: the candidate is returned when the verdict
\* is true, and candidate = candidate.addOne().addOne() otherwise.
GPTested ==
    /\ pc = "millerRabinTest"
    /\ gen.pc = "testing"
    /\ mr.pc \in {"returned", "thrown"}
    /\ gen' = IF mr.pc = "thrown" THEN [gen EXCEPT !.pc = "thrown"]
              ELSE IF mr.verdict THEN [gen EXCEPT !.pc = "returned"]
              ELSE [gen EXCEPT !.pc = "incremented",
                               !.candidate =
                                   Call("addOne",
                                        <<Call("addOne", <<gen.candidate>>)>>)]
    /\ mr' = NoMR
    /\ pc' = "generatePrime"
    /\ UNCHANGED <<karatsubaMemo, memoBefore, op, num1_str, num2_str, a, b,
                   c, result, calls, dh>>

NextPrime == GPDraw \/ GPSieve \/ GPTest \/ MRRound \/ MRAccept \/ GPTested

SpecPrime == PrimeInit /\ [][NextPrime]_vars

(***************************************************************************)
(* Reading values as integers (operands short enough for the integers of   *)
(* the checker) and the vocabulary of the properties                       *)
(***************************************************************************)
MaxValueDigits == 6

Small(x) == Len(x.digits) <= MaxValueDigits

RECURSIVE Magnitude(_)
Magnitude(ds) ==
    IF ds = <<>> THEN 0
    ELSE convertHexDigitToInt(Head(ds)) + 16 * Magnitude(Tail(ds))

IntValue(x) == IF x.isNegative THEN 0 - Magnitude(x.digits)
               ELSE Magnitude(x.digits)

Abs(n) == IF n < 0 THEN 0 - n ELSE n

ZeroMagnitude(x) == \A i \in 1..Len(x.digits) : x.digits[i] = 48

\* The representation invariant of a value.
WellFormed(x) ==
    /\ Len(x.digits) >= 1
    /\ Len(x.digits) <= HEX_SIZE
    /\ Len(x.digits) = 1 \/ x.digits[Len(x.digits)] # 48
    /\ \A i \in 1..Len(x.digits) : convertHexDigitToInt(x.digits[i]) \in 0..15
    /\ ZeroMagnitude(x) =>
          ~x.isNegative /\ compare(x, createFromString(<<48>>).val) = 0

IsHexChar(ch) == ch \in (48..57) \cup (65..70) \cup (97..102)

\* A valid literal: an optional '-', then one to HEX_SIZE hexadecimal digits.
ValidLiteral(str) ==
    /\ Len(str) >= 1
    /\ LET body == IF str[1] = 45 THEN Tail(str) ELSE str
       IN /\ Len(body) >= 1
          /\ Len(body) <= HEX_SIZE
          /\ \A i \in 1..Len(body) : IsHexChar(body[i])

RECURSIVE DropLeadingZeros(_)
DropLeadingZeros(str) ==
    IF Len(str) > 1 /\ Head(str) = 48 THEN DropLeadingZeros(Tail(str))
    ELSE str

\* The canonical text of a valid literal: no redundant leading zeros, and no
\* sign when the value is zero.
Canonical(str) ==
    LET neg == str[1] = 45
        body == DropLeadingZeros(IF neg THEN Tail(str) ELSE str)
    IN IF neg /\ body # <<48>> THEN <<45>> \o body ELSE body

Divided == pc = "done" /\ op \in {"div", "mod"}

(***************************************************************************)
(* Properties of the calculator                                            *)
(***************************************************************************)
\* C1: for every dividend a and every nonzero divisor b, divide returns a
\* quotient q and a remainder r with a = q*b + r and 0 <= |r| < |b|.
DivisionIdentity ==
    (Divided /\ ~ZeroMagnitude(b.val) /\ Small(a.val) /\ Small(b.val)) =>
        /\ result.err = "none"
        /\ IntValue(a.val) = IntValue(result.quotient) * IntValue(b.val)
                               + IntValue(result.remainder)
        /\ Abs(IntValue(result.remainder)) < Abs(IntValue(b.val))

\* The values the calculator has produced in this state.
Produced ==
    (IF pc \in {"ready", "done"} THEN {a.val, b.val} ELSE {})
    \cup (IF pc = "done" /\ result.err = "none"
          THEN (IF Divided THEN {result.quotient, result.remainder}
                ELSE {result.val})
          ELSE {})

\* C7: every value returned by createFromString, operator+, operator-,
\* operator* and divide has 1 <= length <= capacity, a nonzero top digit
\* unless length is 1, digits of the radix, and is not negative when it is
\* zero, so that it compares equal to a parsed "0".
RepresentationInvariant == \A x \in Produced : WellFormed(x)

\* C8: for every valid literal s, toString(createFromString(s)) is the
\* canonical text of s, and parsing the rendered text again yields the same
\* value.
RoundTrip ==
    \A io \in {<<num1_str, a>>, <<num2_str, b>>} :
        (ValidLiteral(io[1]) /\ io[2].err # "pending") =>
            /\ io[2].err = "none"
            /\ toString(io[2].val) = Canonical(io[1])
            /\ createFromString(toString(io[2].val)) = io[2]

\* "-007" has been parsed and renders as "-7".
RoundTripWitness ==
    /\ pc = "ready"
    /\ num1_str = Minus(Hex(<<0, 0, 7>>))
    /\ num2_str = Minus(Hex(<<0>>))
    /\ toString(a.val) = Minus(Hex(<<7>>))
    /\ toString(b.val) = Hex(<<0>>)

\* C10: add(a, b) returns the canonical representation of the integer sum
\* a + b; with different signs the result takes the sign of the operand of
\* larger absolute value, and with equal absolute values it is the
\* non-negative zero.
AddIsSum ==
    (pc = "done" /\ op = "add" /\ Small(a.val) /\ Small(b.val)) =>
        /\ result.err = "none"
        /\ WellFormed(result.val)
        /\ IntValue(result.val) = IntValue(a.val) + IntValue(b.val)
        /\ (IntValue(a.val) + IntValue(b.val) = 0) => ~result.val.isNegative

(***************************************************************************)
(* Properties of the multiplication loop                                   *)
(***************************************************************************)
Multiplied == op = "mul" /\ calls > 0

\* operator* hands the operands to karatsuba.
ThroughKaratsuba ==
    Len(a.val.digits) + Len(b.val.digits) > KARATSUBA_THRESHOLD * 2

\* What karatsuba returns for the operands of the last call, in the memo
\* table the call found: the outcome of the call when operator* went through
\* karatsuba.
KaratsubaOutcome ==
    IF ThroughKaratsuba THEN result
    ELSE LET k == karatsuba(a.val, b.val, memoBefore)
         IN [err |-> k.err, val |-> k.val]

\* C2: for every pair of operands and in every state of the memo table,
\* karatsuba returns the magnitude and the sign that multiplyNaive returns,
\* whenever multiplyNaive succeeds: on the table the call found, and on the
\* table it left.
KaratsubaAgreesWithNaive ==
    Multiplied =>
        LET naive == multiplyNaive(a.val, b.val)
            again == karatsuba(a.val, b.val, karatsubaMemo)
        IN naive.err = "none" =>
              /\ KaratsubaOutcome = naive
              /\ again.err = "none"
              /\ again.val = naive.val

\* The 17-digit operand times the negative 9-digit one, computed afresh in a
\* table that earlier calls have filled: the product is the negative naive
\* product.
KaratsubaWitness ==
    /\ Multiplied
    /\ calls = 2
    /\ Len(a.val.digits) = 17
    /\ Len(b.val.digits) = 9
    /\ b.val.isNegative
    /\ DOMAIN memoBefore # {}
    /\ memoKey(a.val, b.val) \notin DOMAIN memoBefore
    /\ result.err = "none"
    /\ result.val.isNegative
    /\ result.val = multiplyNaive(a.val, b.val).val

\* C9: multiply(a, b) and multiply(b, a) have the same outcome after any
\* sequence of multiplications; both orders have the same memo key; and once
\* multiply(a, b) has gone through karatsuba, multiply(b, a) is answered from
\* the memo table and adds no entry.
MultiplyCommutes ==
    Multiplied =>
        LET before == operatorTimes(b.val, a.val, memoBefore)
            after == operatorTimes(b.val, a.val, karatsubaMemo)
        IN /\ before.err = result.err
           /\ before.val = result.val
           /\ after.err = result.err
           /\ after.val = result.val
           /\ memoKey(a.val, b.val) = memoKey(b.val, a.val)
           /\ (ThroughKaratsuba /\ result.err = "none") =>
                 /\ memoKey(b.val, a.val) \in DOMAIN karatsubaMemo
                 /\ after.memo = karatsubaMemo

\* The negative 9-digit operand times the 17-digit one, right after the
\* product in the other order: the key is in the table and no entry is added.
MultiplyCommutesWitness ==
    /\ Multiplied
    /\ calls = 2
    /\ Len(a.val.digits) = 9
    /\ Len(b.val.digits) = 17
    /\ a.val.isNegative
    /\ memoKey(a.val, b.val) \in DOMAIN memoBefore
    /\ StrGreater(toString(b.val), toString(a.val))
    /\ karatsubaMemo = memoBefore
    /\ result.err = "none"
    /\ result.val.isNegative

\* Both orders of a product beyond the capacity throw Overflow.
MultiplyOverflowWitness ==
    /\ Multiplied
    /\ Len(a.val.digits) = 17
    /\ Len(b.val.digits) = HEX_SIZE - 8
    /\ result.err = "Overflow"
    /\ operatorTimes(b.val, a.val, karatsubaMemo).err = "Overflow"


(***************************************************************************)
(* Properties of modular exponentiation                                    *)
(***************************************************************************)
\* A value of the second implementation read as its first length digits.
Value2(x) == BigHexInt(SubSeq(x.digits, 1, x.length), x.isNegative)

\* The operands and the outcome of the last exponentiation, whichever
\* program made it.
PowOperand(x) == IF op = "modPow" THEN Value2(x.val) ELSE x.val

Exponentiated ==
    /\ op \in {"modPower", "modPow"}
    /\ calls > 0
    /\ firstError(a, b, c) = "none"

\* g^e mod m on the integers, by e multiplications: for a modulus whose
\* square is within the integers of the checker.
IntPowMod(g, e, m) ==
    FoldRange(LAMBDA acc, k : (acc * (g % m)) % m, 1 % m, 0, e)

\* g^e mod m by e schoolbook multiplications and long divisions, for the
\* longer operands.
LongPowMod(g, e, m) ==
    FoldRange(LAMBDA acc, k :
                  operatorMod(multiplyNaive(acc, g).val, m).val,
              operatorMod(one, m).val, 0, e)

ShortModulus(m) == 2 * Len(m.digits) <= MaxValueDigits

\* r is g^e mod m.
IsPowMod(r, g, e, m) ==
    IF ShortModulus(m) /\ Small(g)
    THEN /\ Small(r)
         /\ WellFormed(r)
         /\ ~r.isNegative
         /\ IntValue(r) = IntPowMod(IntValue(g), IntValue(e), IntValue(m))
         /\ IntValue(r) < IntValue(m)
    ELSE /\ r = LongPowMod(g, IntValue(e), m)
         /\ compare(r, zero) >= 0
         /\ compare(r, m) < 0

\* C4: for every base >= 0, exponent >= 0 and modulus >= 2 for which no
\* Overflow is raised, modular exponentiation (modPower of BigIntv1.cpp and
\* modPow of unnamed/part_000) returns exactly base^exponent mod modulus, a
\* value r with 0 <= r < modulus.
ModPowIsPower ==
    (Exponentiated /\ result.err # "Overflow"
        /\ ~PowOperand(a).isNegative
        /\ ~PowOperand(b).isNegative
        /\ compare(PowOperand(c), two) >= 0) =>
        /\ result.err = "none"
        /\ IsPowMod(PowOperand(result), PowOperand(a), PowOperand(b),
                    PowOperand(c))

\* The claim C4 restricted to modPower of BigIntv1.cpp.
ModPowerIsPower == op = "modPower" => ModPowIsPower

\* modPower has returned 3 for 2^16 mod 13.
ModPowerWitness ==
    /\ Exponentiated
    /\ op = "modPower"
    /\ toString(a.val) = Hex(<<2>>)
    /\ toString(b.val) = Hex(<<1, 0>>)
    /\ toString(c.val) = Hex(<<13>>)
    /\ result.err = "none"
    /\ toString(result.val) = Hex(<<3>>)

\* modPow has returned a 32-digit value for the 11-digit base, the exponent
\* 7 and the 33-digit modulus, and no exception.
ModPowWrongWitness ==
    /\ Exponentiated
    /\ op = "modPow"
    /\ a.val.length = 11
    /\ c.val.length = 33
    /\ result.err = "none"
    /\ result.val.length = 32
    /\ modPower(Value2(a.val), Value2(b.val), Value2(c.val), EmptyMemo).val
           # Value2(result.val)

(***************************************************************************)
(* Properties of subtraction and comparison                                *)
(***************************************************************************)
\* The operand with its sign changed; zero stays the non-negative zero.
Negate(x) == IF ZeroMagnitude(x) THEN BigHexInt(x.digits, FALSE)
             ELSE BigHexInt(x.digits, ~x.isNegative)

\* C11: subtract(a, b) returns the canonical representation of the integer
\* difference a - b for all four sign combinations and either magnitude
\* larger; it equals add(a, negate(b)); the result sign is flipped when
\* |a| < |b| with equal signs; and subtract(a, a) is the non-negative zero.
SubtractIsDifference ==
    (pc = "done" /\ op = "sub" /\ Small(a.val) /\ Small(b.val)) =>
        /\ result.err = "none"
        /\ WellFormed(result.val)
        /\ IntValue(result.val) = IntValue(a.val) - IntValue(b.val)
        /\ result = operatorPlus(a.val, Negate(b.val))
        /\ (a.val.isNegative = b.val.isNegative
              /\ Abs(IntValue(a.val)) < Abs(IntValue(b.val))) =>
              result.val.isNegative = ~a.val.isNegative
        /\ a.val = b.val => (isZero(result.val) /\ ~result.val.isNegative)

\* The difference itself: the part of C11 that does not go through add.
SubtractAlone ==
    (pc = "done" /\ op = "sub" /\ Small(a.val) /\ Small(b.val)) =>
        /\ result.err = "none"
        /\ WellFormed(result.val)
        /\ IntValue(result.val) = IntValue(a.val) - IntValue(b.val)

Compared == pc = "compared" /\ result.err = "none"

\* The order of two integers as compare reports it.
IntOrder(x, y) == IF x < y THEN -1 ELSE IF x = y THEN 0 ELSE 1

\* C12: on canonical values compare(a, b) returns less, equal or greater
\* exactly as the integers a and b are ordered; compare(a, b) is
\* -compare(b, a); and compare(a, b) is 0 iff a and b have the same sign,
\* length and digits.
CompareOrders ==
    Compared =>
        /\ (Small(a.val) /\ Small(b.val)) =>
              result.order = IntOrder(IntValue(a.val), IntValue(b.val))
        /\ result.order \in {-1, 0, 1}
        /\ compare(b.val, a.val) = 0 - result.order
        /\ (result.order = 0) <=> (a.val = b.val)

\* -100 has been compared with -7: two negative values of different lengths,
\* the longer one is the smaller.
CompareWitness ==
    /\ Compared
    /\ toString(a.val) = Minus(Hex(<<1, 0, 0>>))
    /\ toString(b.val) = Minus(Hex(<<7>>))
    /\ result.order = -1

(***************************************************************************)
(* Properties of the error cases and of the boundary cases                 *)
(***************************************************************************)
\* The errors that report a zero divisor or modulus: DivisionByZeroException
\* of divide, and the std::invalid_argument that modPow of unnamed/part_000
\* throws for a zero modulus.
ZeroDivisorErrors ==
    {"DivisionByZero", "invalid_argument: Modulus cannot be zero"}

\* C13: divide, operator/ and operator% raise DivisionByZero for every
\* dividend (zero and negative ones included) when the magnitude of the
\* divisor is zero, and modPow/modPower raises an error of the
\* DivisionByZero class for every base and exponent when the modulus is
\* zero; no quotient, remainder or power is returned.
DivisionByZeroRaised ==
    /\ (Divided /\ ZeroMagnitude(b.val)) =>
          /\ result.err = "DivisionByZero"
          /\ divide(a.val, b.val).err = "DivisionByZero"
          /\ operatorDiv(a.val, b.val).err = "DivisionByZero"
          /\ operatorMod(a.val, b.val).err = "DivisionByZero"
    /\ (Exponentiated /\ ZeroMagnitude(PowOperand(c))) =>
          /\ result.err \in ZeroDivisorErrors
          /\ op = "modPower" => result.err = "DivisionByZero"
          /\ op = "modPow" =>
                /\ divide2(a.val, c.val).err = "DivisionByZero"
                /\ operatorDiv2(a.val, c.val).err = "DivisionByZero"
                /\ operatorMod2(a.val, c.val).err = "DivisionByZero"

\* -7 has been divided by "-0": DivisionByZero and no quotient.
DivisionByZeroWitness ==
    /\ Divided
    /\ toString(a.val) = Minus(Hex(<<7>>))
    /\ num2_str = Minus(Hex(<<0>>))
    /\ ZeroMagnitude(b.val)
    /\ result.err = "DivisionByZero"

\* modPow of unnamed/part_000 has been called with the modulus zero.
ZeroModulusWitness ==
    /\ Exponentiated
    /\ op = "modPow"
    /\ ZeroMagnitude(PowOperand(c))
    /\ PowOperand(a).isNegative
    /\ result.err = "invalid_argument: Modulus cannot be zero"

\* The modulus of the last exponentiation is neither 0 nor 1.
ProperModulus ==
    /\ ~ZeroMagnitude(PowOperand(c))
    /\ PowOperand(c) # one

ZeroBaseWitness ==
    /\ Exponentiated
    /\ op = "modPower"
    /\ ZeroMagnitude(a.val)
    /\ toString(b.val) = Hex(<<1, 11>>)
    /\ toString(c.val) = Hex(<<1, 0, 0>>)
    /\ result.err = "none"
    /\ result.val = zero

\* The digits of a literal: the text after the optional '-'.
LiteralBody(str) == IF Len(str) >= 1 /\ str[1] = 45 THEN Tail(str) ELSE str

\* A literal of invalid format: empty, only '-', or with a character outside
\* the radix alphabet.
Malformed(str) ==
    \/ Len(LiteralBody(str)) = 0
    \/ \E i \in 1..Len(LiteralBody(str)) : ~IsHexChar(LiteralBody(str)[i])

\* The number of digits left after the redundant leading zeros are stripped.
StrippedLength(str) == Len(DropLeadingZeros(LiteralBody(str)))

\* C15: createFromString fails with InvalidFormat (InvalidInputException)
\* exactly when the string is empty, consists only of '-', or contains a
\* character outside the radix alphabet; it fails with CapacityExceeded
\* (OverflowException) exactly when the format is valid and the number of
\* digits left after stripping redundant leading zeros exceeds the capacity;
\* a well-formed literal whose stripped digit count fits is accepted.
LiteralErrors ==
    \A io \in {<<num1_str, a>>, <<num2_str, b>>} :
        io[2].err # "pending" =>
            /\ io[2].err = "InvalidInput" <=> Malformed(io[1])
            /\ io[2].err = "Overflow" <=>
                  (~Malformed(io[1]) /\ StrippedLength(io[1]) > HEX_SIZE)
            /\ io[2].err = "none" <=>
                  (~Malformed(io[1]) /\ StrippedLength(io[1]) <= HEX_SIZE)

(***************************************************************************)
(* Properties of the multiplication loop: overflow and the memo table      *)
(***************************************************************************)
\* C16: for nonzero operands a and b, operator* fails with Overflow whenever
\* len(a) + len(b) exceeds the capacity, on the naive path and on the
\* karatsuba path, and never fails with Overflow when len(a) + len(b) is
\* within the capacity.
MultiplyOverflows ==
    (Multiplied /\ ~ZeroMagnitude(a.val) /\ ~ZeroMagnitude(b.val)) =>
        (result.err = "Overflow"
            <=> Len(a.val.digits) + Len(b.val.digits) > HEX_SIZE)

\* The half of C16 that the code keeps: no Overflow within the capacity.
NoOverflowWithinCapacity ==
    (Multiplied /\ Len(a.val.digits) + Len(b.val.digits) <= HEX_SIZE) =>
        result.err = "none"

(***************************************************************************)
(* Properties of generateRandom                                            *)
(***************************************************************************)
\* C17: for every digit count in 1..capacity and every outcome of the random
\* source, generateRandom returns a non-negative value with exactly that
\* many significant digits, a nonzero most significant digit and an odd
\* least significant digit; for a digit count <= 0 or beyond the capacity it
\* fails with InvalidFormat and returns no value.
RandomShape ==
    op = "generateRandom" =>
        IF result.numHexDigits >= 1 /\ result.numHexDigits <= HEX_SIZE
        THEN /\ result.err = "none"
             /\ ~result.val.isNegative
             /\ Len(result.val.digits) = result.numHexDigits
             /\ result.val.digits[result.numHexDigits] # 48
             /\ convertHexDigitToInt(result.val.digits[1]) % 2 = 1
             /\ WellFormed(result.val)
        ELSE result.err = "InvalidInput"

\* generateRandom(2) has returned a1: the low digit was drawn as 0 or as 1.
RandomWitness ==
    /\ op = "generateRandom"
    /\ result.numHexDigits = 2
    /\ result.err = "none"
    /\ toString(result.val) = Hex(<<10, 1>>)

\* The canonical text of the product of the values of two canonical texts,
\* by the schoolbook loops without the capacity check.
ProductText(s1, s2) ==
    LET x == createFromString(s1).val
        y == createFromString(s2).val
        total == Len(x.digits) + Len(y.digits)
    IN IF isZero(x) \/ isZero(y) THEN <<48>>
       ELSE toString(BigHexInt(
                stripHighZeros(mulOuter(x, y, Array([k \in 1..total |-> 48]))),
                x.isNegative # y.isNegative))

\* C18: every entry of karatsubaMemo has a key (s1, s2) with s1 <= s2 in
\* lexicographic order, and its value is the canonical text of
\* value(s1) * value(s2), sign included; so a cache hit returns what a
\* recomputation would return.  Both for BigIntv1.cpp and for
\* unnamed/part_000.
CacheSound ==
    \A key \in DOMAIN karatsubaMemo :
        /\ ~StrGreater(key[1], key[2])
        /\ karatsubaMemo[key] = ProductText(key[1], key[2])

\* C18 for the memo table of BigIntv1.cpp, filled by the multiplication loop,
\* with the hit compared to the recomputation in an empty table.
CacheSoundFirst ==
    /\ CacheSound
    /\ (Multiplied /\ result.err = "none" /\ ThroughKaratsuba) =>
          /\ memoKey(a.val, b.val) \in DOMAIN karatsubaMemo
          /\ karatsuba(a.val, b.val, karatsubaMemo).val
                = karatsuba(a.val, b.val, EmptyMemo).val

DivisionSigns ==
    (Divided /\ ~ZeroMagnitude(b.val)) =>
        /\ result.err = "none"
        /\ result.quotient.isNegative <=>
              (a.val.isNegative # b.val.isNegative
                  /\ ~ZeroMagnitude(result.quotient))
        /\ result.remainder.isNegative <=>
              (a.val.isNegative /\ ~ZeroMagnitude(result.remainder))

\* The sign of the quotient alone, when divide returns: the part of C20 that
\* divide of BigIntv1.cpp keeps.
QuotientSign ==
    (Divided /\ ~ZeroMagnitude(b.val) /\ result.err = "none") =>
        /\ result.quotient.isNegative <=>
              (a.val.isNegative # b.val.isNegative
                  /\ ~ZeroMagnitude(result.quotient))

(***************************************************************************)
(* Properties of the Miller-Rabin test                                     *)
(***************************************************************************)
\* The candidate of the call, as text.
MRLiteral == Call("toString", <<mr.n>>)

\* n is a prime: a short one by trial division, and the prime P384.
IsPrime(n) == n >= 2 /\ \A f \in 2..(n - 1) : n % f # 0
MRPrime ==
    \/ MRLiteral = P384
    \/ Small(mr.n) /\ ~mr.n.isNegative /\ IsPrime(IntValue(mr.n))

\* C5: a call of millerRabinTest on a prime returns true, for every
\* iteration count and every sequence of witnesses: it neither returns false
\* nor ends with an exception.
PrimesAccepted ==
    (mr.pc \in {"returned", "thrown"} /\ MRPrime)
        => (mr.pc = "returned" /\ mr.verdict)

\* The same for the primes short enough for every product of the call to
\* fit the capacity (2 * length <= HEX_SIZE).
ShortPrimesAccepted ==
    (mr.pc \in {"returned", "thrown"} /\ MRPrime
        /\ 2 * Len(mr.n.digits) <= HEX_SIZE)
        => (mr.pc = "returned" /\ mr.verdict)

\* The prime 0x3d has gone through the last of three rounds and the call
\* has returned true.
ShortPrimesWitness ==
    /\ mr.pc = "returned"
    /\ MRLiteral = Hex(<<3, 13>>)
    /\ mr.k = MaxIterations
    /\ mr.verdict

\* C6: a call of millerRabinTest with one round or more on 4, 9, 0xf or
\* 0x1b returns false, whatever witnesses are drawn.
NamedComposites == { Hex(<<4>>), Hex(<<9>>), Hex(<<15>>), Hex(<<1, 11>>) }
CompositesRejected ==
    (mr.pc # "off" /\ MRLiteral \in NamedComposites /\ mr.k >= 1)
        => /\ mr.pc \in {"loop", "returned"}
           /\ mr.pc = "loop" => mr.i = 0
           /\ mr.pc = "returned" => ~mr.verdict

\* 0xf has been rejected in a round, and 0x1b too.
CompositesWitness ==
    /\ mr.pc = "returned"
    /\ MRLiteral \in { Hex(<<15>>), Hex(<<1, 11>>) }
    /\ mr.k >= 1
    /\ ~mr.verdict

(***************************************************************************)
(* Properties of the key exchange                                          *)
(***************************************************************************)
\* C3: when the four exponentiations of the exchange raise no Overflow, with
\* g >= 0, a >= 0, b >= 0 and p >= 2, the two shared secrets compare equal
\* and are the same value, whatever the memo table held between the calls.
SecretsAgree ==
    (dh.pc = "done" /\ ~dh.g.isNegative /\ ~dh.a.isNegative
        /\ ~dh.b.isNegative /\ Call("compare", <<dh.p, two>>) >= 0)
        => (dh.match /\ dh.SA = dh.SB)

\* An exchange modulo the 9-digit modulus has ended with the memo table
\* filled by the products of its exponentiations.
SecretsAgreeWitness ==
    /\ dh.pc = "done"
    /\ Len(dh.p.digits) = 9
    /\ DOMAIN karatsubaMemo # {}
    /\ ~isZero(dh.SA)
    /\ ~isOne(dh.SA)

\* The exchange of the 65-digit modulus ends with Overflow.
SecretsOverflowWitness ==
    /\ dh.pc = "thrown"
    /\ dh.err = "Overflow"

(***************************************************************************)
(* Properties of modular exponentiation at the modulus one, at negative    *)
(* exponents and at negative bases                                         *)
(***************************************************************************)
\* C22: modular exponentiation returns zero whenever the modulus is one, for
\* every base and every exponent >= 0, the exponent zero included: modPow(b,
\* 0, 1) is 0 and not 1.  Both for modPower of BigIntv1.cpp and for modPow
\* of unnamed/part_000.
ModulusOneGivesZero ==
    (Exponentiated /\ PowOperand(c) = one /\ ~PowOperand(b).isNegative) =>
        /\ result.err = "none"
        /\ ZeroMagnitude(PowOperand(result))

\* The claim C22 for the exponents above zero, and for modPow of
\* unnamed/part_000 at every exponent.
ModulusOneGivesZeroAboveZero ==
    (op = "modPow" \/ ~ZeroMagnitude(PowOperand(b))) => ModulusOneGivesZero

\* C23: modular exponentiation fails on negative exponents: for every
\* exponent below zero, every base (zero included) and every modulus other
\* than 0 and 1 it raises an error and returns no value, neither 0 nor 1.
\* Both for modPow of unnamed/part_000 and for modPower of BigIntv1.cpp.
NegativeExponentFails ==
    (Exponentiated /\ ProperModulus /\ PowOperand(b).isNegative) =>
        result.err # "none"

\* The claim C23 for modPow of unnamed/part_000 at the bases other than zero.
NegativeExponentFailsNonzeroBase ==
    (op = "modPow" /\ ~ZeroMagnitude(PowOperand(a))) => NegativeExponentFails


\* The locals of modPower at the start of every iteration of its loop, and
\* at its exit, from the state st on.
RECURSIVE ModPowerStates(_, _)
ModPowerStates(st, modulus) ==
    {st} \cup
        IF st.err = "none" /\ compare(st.exp, zero) > 0
        THEN ModPowerStates(modPowerBody(st, modulus), modulus)
        ELSE {}

\* The same of the loop of modPow.
RECURSIVE ModPowStates(_, _)
ModPowStates(st, modulus) ==
    {st} \cup
        IF st.err = "none" /\ ~isZero2(st.exp)
        THEN ModPowStates(modPowBody(st, modulus), modulus)
        ELSE {}

\* The states the loop of the last modPower went through: none when the
\* reduction of the base threw.
LoopStates ==
    LET from(base) ==
            IF base.err # "none" THEN {}
            ELSE ModPowerStates([res |-> one, base |-> base.val, exp |-> b.val,
                                 memo |-> memoBefore, err |-> "none"], c.val)
    IN IF op = "modPower" /\ Exponentiated
       THEN from(operatorMod(a.val, c.val))
       ELSE {}

\* The states the loop of the last modPow went through: none when modPow
\* returned or threw before its loop.
LoopStates2 ==
    LET from(base) ==
            IF base.err # "none" \/ isZero2(base.val) THEN {}
            ELSE ModPowStates([result |-> createFromString2(<<49>>).val,
                               base |-> base.val, exp |-> b.val,
                               memo |-> memoBefore, err |-> "none"], c.val)
    IN IF op = "modPow" /\ Exponentiated /\ ~isZero2(c.val) /\ ~isOne2(c.val)
          /\ ~isZero2(b.val) /\ ~isZero2(a.val) /\ ~b.val.isNegative
       THEN from(positiveBase(a.val, c.val))
       ELSE {}

\* The working base w and the accumulator r the last exponentiation went
\* through after its initial reduction: those of the states of its loop,
\* and the reduced base alone when modPow returned on a base of zero.
WorkingStates ==
    LET reduced2(base) ==
            IF base.err = "none" /\ isZero2(base.val)
            THEN {[w |-> Value2(base.val), r |-> one]}
            ELSE {}
    IN {[w |-> st.base, r |-> st.res] : st \in LoopStates}
       \cup {[w |-> Value2(st.base), r |-> Value2(st.result)] :
                st \in LoopStates2}
       \cup IF op = "modPow" /\ Exponentiated /\ ~isZero2(c.val)
               /\ ~isOne2(c.val) /\ ~isZero2(b.val) /\ ~isZero2(a.val)
               /\ ~b.val.isNegative
            THEN reduced2(positiveBase(a.val, c.val))
            ELSE {}

InRange(x, m) == compare(x, zero) >= 0 /\ compare(x, m) < 0

\* C24: after the initial reduction and at the start of every iteration of
\* the square-and-multiply loop the working base w and the accumulator r
\* satisfy 0 <= w < modulus and 0 <= r < modulus, for every base, negative
\* bases and negative multiples of the modulus included, so that the result
\* on a negative base is the residue in 0 .. modulus - 1.
WorkingBaseInRange ==
    (Exponentiated /\ compare(PowOperand(c), two) >= 0
        /\ ~PowOperand(b).isNegative) =>
        /\ \A st \in WorkingStates :
              InRange(st.w, PowOperand(c)) /\ InRange(st.r, PowOperand(c))
        /\ result.err = "none" => InRange(PowOperand(result), PowOperand(c))

\* The claim C24 for modPower on the bases >= 0.
ModPowerBaseInRange ==
    (op = "modPower" /\ ~a.val.isNegative) => WorkingBaseInRange

\* The claim C24 for modPow on the bases that are not negative multiples of
\* the modulus.
ModPowBaseInRange ==
    (op = "modPow" /\ positiveBase(a.val, c.val).val # c.val)
        => WorkingBaseInRange

\* The final result alone of modPow is within 0 .. modulus - 1.
ModPowResultInRange ==
    (op = "modPow" /\ Exponentiated /\ compare(PowOperand(c), two) >= 0
        /\ result.err = "none") => InRange(PowOperand(result), PowOperand(c))

(***************************************************************************)
(* Properties of the witnesses of millerRabinTest                          *)
(***************************************************************************)
\* 2 <= w <= n - 2
IsWitnessOf(w, n) ==
    /\ compare(w, two) >= 0
    /\ compare(w, subtractOne(subtractOne(n))) <= 0

\* C25: for every odd n >= 5 and every outcome of the random source, each
\* witness a that generateRandomBigHexIntInRange(2, n - 2) returns inside
\* millerRabinTest satisfies 2 <= a <= n - 2, and the rejection loop has at
\* least one value it accepts.
WitnessesInRange ==
    mr.pc = "loop" =>
        /\ generateRandomBigHexIntInRange(two, subtractOne(subtractOne(mr.n)))
               # {}
        /\ \A w \in generateRandomBigHexIntInRange(
                        two, subtractOne(subtractOne(mr.n))) :
              w.err = "none" /\ IsWitnessOf(w.val, mr.n)
        /\ mr.i > 0 => IsWitnessOf(mr.a, mr.n)

\* A round of the test of 5 has passed with the witness 3, the only one the
\* generator can return for 5.
WitnessOfFive ==
    /\ mr.pc = "loop"
    /\ mr.i > 0
    /\ toString(mr.n) = Hex(<<5>>)
    /\ mr.a = three
    /\ generateRandomBigHexIntInRange(two, three) = {Ok(three)}

(***************************************************************************)
(* Properties of the digit loop of long division                           *)
(***************************************************************************)
\* The value of a digit array without its high zeros, not negative.
Canon(ds) == BigHexInt(stripHighZeros(ds), FALSE)

\* The j most significant digits of x as a value.
Prefix(x, j) ==
    Canon(SubSeq(x.digits, Len(x.digits) - j + 1, Len(x.digits)))

\* The iterations of the digit loop of divide from the j-th one on, st being
\* the state at the end of the j-th: each iteration with the number of
\* digits brought in and the state at its end.
RECURSIVE DivideSteps(_, _, _, _)
DivideSteps(this, abs_divisor, st, j) ==
    {[j |-> j, p |-> Canon(st.cur), q |-> Canon(st.quotient),
      digits |-> st.quotient, err |-> st.err]}
    \cup IF j >= Len(this.digits) \/ st.err # "none" THEN {}
         ELSE DivideSteps(this, abs_divisor,
                          divideBody(this, abs_divisor, st,
                                     Len(this.digits) - 1 - j),
                          j + 1)

\* The quotient digits of a state of the loop of unnamed/part_000, least
\* significant first.
QuotientDigits2(st) ==
    SubSeq(reversePrefix(st.quotient, st.quotientPos), 1, st.quotientPos)

\* The same of the digit loop of divide of unnamed/part_000.
RECURSIVE DivideSteps2(_, _, _, _)
DivideSteps2(dividend, divisorAbs, st, j) ==
    {[j |-> j, p |-> Canon(SubSeq(st.cur.digits, 1, st.cur.length)),
      q |-> IF st.quotientPos = 0 THEN zero ELSE Canon(QuotientDigits2(st)),
      digits |-> QuotientDigits2(st), err |-> st.err]}
    \cup IF j >= dividend.length \/ st.err # "none" THEN {}
         ELSE DivideSteps2(dividend, divisorAbs,
                           divideBody2(dividend, divisorAbs, st,
                                       dividend.length - 1 - j),
                           j + 1)

\* The last operation has run the digit loop of divide of BigIntv1.cpp on
\* a and b.
DigitLoopRan ==
    /\ Divided
    /\ ~ZeroMagnitude(b.val)
    /\ compare(BigHexInt(a.val.digits, FALSE),
               BigHexInt(b.val.digits, FALSE)) >= 0

\* The last operation is a modPow that has run the digit loop of divide of
\* unnamed/part_000 on |base| and modulus, for its initial reduction.
DigitLoopRan2 ==
    /\ Exponentiated
    /\ op = "modPow"
    /\ ~isZero2(c.val) /\ ~isOne2(c.val)
    /\ ~isZero2(b.val) /\ ~isZero2(a.val)
    /\ ~b.val.isNegative
    /\ compare2(BigHexInt2(a.val.digits, a.val.length, FALSE),
                BigHexInt2(c.val.digits, c.val.length, FALSE)) > 0

\* The dividend and the magnitude of the divisor of the digit loop the last
\* operation has run, as values.
LoopDividend == IF DigitLoopRan THEN a.val ELSE Value2(a.val)

LoopDivisor ==
    IF DigitLoopRan THEN BigHexInt(b.val.digits, FALSE)
    ELSE Canon(SubSeq(c.val.digits, 1, c.val.length))

\* The iterations of the digit loop the last operation has run.
DigitLoop ==
    IF DigitLoopRan
    THEN DivideSteps(a.val, BigHexInt(b.val.digits, FALSE),
                     divideBody(a.val, BigHexInt(b.val.digits, FALSE),
                                [cur |-> <<48>>, quotient |-> <<48>>,
                                 err |-> "none"],
                                Len(a.val.digits) - 1), 1)
    ELSE IF DigitLoopRan2
    THEN DivideSteps2(BigHexInt2(a.val.digits, a.val.length, FALSE),
                      BigHexInt2(c.val.digits, c.val.length, FALSE),
                      divideBody2(
                          BigHexInt2(a.val.digits, a.val.length, FALSE),
                          BigHexInt2(c.val.digits, c.val.length, FALSE),
                          [cur |-> ZeroValue2, quotient |-> Zeros2,
                           quotientPos |-> 0, err |-> "none"],
                          a.val.length - 1), 1)
    ELSE {}

\* prefix = q * divisor + p: on the integers for the short prefixes, by a
\* schoolbook multiplication and an addition where the product is within
\* the capacity.
IsQuotientAndRest(q, p, prefix, divisor) ==
    IF Small(prefix) /\ Small(q) /\ Small(p) /\ Small(divisor)
    THEN IntValue(prefix) = IntValue(q) * IntValue(divisor) + IntValue(p)
    ELSE Len(q.digits) + Len(divisor.digits) <= HEX_SIZE =>
            operatorPlus(multiplyNaive(q, divisor).val, p).val = prefix

\* C21: at the end of every iteration of the digit loop of long division
\* the partial remainder p satisfies 0 <= p < |divisor|, every quotient
\* digit is within 0 .. f, and the quotient digits accumulated so far are
\* floor(prefix / |divisor|) for the prefix of the dividend brought in so
\* far.  Both for divide of BigIntv1.cpp and divide of unnamed/part_000.
DigitLoopInvariant ==
    \A step \in DigitLoop :
        step.err = "none" =>
            /\ compare(step.p, zero) >= 0
            /\ compare(step.p, LoopDivisor) < 0
            /\ \A k \in 1..Len(step.digits) :
                  convertHexDigitToInt(step.digits[k]) \in 0..15
            /\ IsQuotientAndRest(step.q, step.p,
                                 Prefix(LoopDividend, step.j),
                                 LoopDivisor)

\* The calculator has divided fff by 7: the loop has brought in three
\* digits, and after the second one the quotient is 24 and the rest is 3.
DigitLoopWitness ==
    /\ DigitLoopRan
    /\ num1_str = Hex(<<15, 15, 15>>)
    /\ num2_str = Hex(<<7>>)
    /\ \E step \in DigitLoop :
          /\ step.j = 2
          /\ step.err = "none"
          /\ IntValue(step.q) = 36
          /\ IntValue(step.p) = 3
    /\ \E step \in DigitLoop : step.j = 3 /\ IntValue(step.p) = 0

\* modPow has reduced the 13-digit base modulo 1b3 in thirteen iterations.
DigitLoopWitness2 ==
    /\ DigitLoopRan2
    /\ a.val.length = 13
    /\ \E step \in DigitLoop : step.j = 13 /\ step.err = "none"

(***************************************************************************)
(* Properties of the recursion of karatsuba                                *)
(***************************************************************************)
\* The splits karatsuba makes for this * other and for the sub-products
\* below it when the memo table has none of them: each split with its
\* padded length n, the lengths of the operands of its three sub-calls and
\* the padded lengths of the sub-calls that split again.
RECURSIVE KaratsubaSplits(_, _)
KaratsubaSplits(this, other) ==
    LET sub(x, y) ==
            [lengths |-> {Len(x.digits), Len(y.digits)},
             deeper |-> IF Len(x.digits) <= KARATSUBA_THRESHOLD
                           \/ Len(y.digits) <= KARATSUBA_THRESHOLD
                           \/ isZero(x) \/ isZero(y)
                        THEN {} ELSE {splitLength(x, y)}]
        summed(n, low1, high1, low2, high2, sum1, sum2) ==
            {[n |-> n,
              subs |-> {sub(low1, low2), sub(high1, high2)}
                       \cup IF sum1.err = "none" /\ sum2.err = "none"
                            THEN {sub(sum1.val, sum2.val)} ELSE {}]}
            \cup KaratsubaSplits(low1, low2)
            \cup KaratsubaSplits(high1, high2)
            \cup IF sum1.err = "none" /\ sum2.err = "none"
                 THEN KaratsubaSplits(sum1.val, sum2.val) ELSE {}
        halves(n, low1, high1, low2, high2) ==
            summed(n, low1, high1, low2, high2, operatorPlus(low1, high1),
                   operatorPlus(low2, high2))
        padded(n, m, x, y) ==
            IF x.err # "none" \/ y.err # "none" THEN {}
            ELSE halves(n, getLower(x.val, m), getHigher(x.val, m),
                        getLower(y.val, m), getHigher(y.val, m))
        split(n) == padded(n, n \div 2, pad(this, n), pad(other, n))
    IN IF Len(this.digits) <= KARATSUBA_THRESHOLD
          \/ Len(other.digits) <= KARATSUBA_THRESHOLD
          \/ isZero(this) \/ isZero(other)
       THEN {}
       ELSE split(splitLength(this, other))

\* The same of karatsuba of unnamed/part_000.
RECURSIVE KaratsubaSplits2(_, _)
KaratsubaSplits2(this, other) ==
    LET leaf(x, y) ==
            \/ x.length = 1 /\ x.digits[1] = 48
            \/ y.length = 1 /\ y.digits[1] = 48
            \/ x.length <= KARATSUBA_THRESHOLD2
            \/ y.length <= KARATSUBA_THRESHOLD2
        sub(x, y) ==
            [lengths |-> {x.length, y.length},
             deeper |-> IF leaf(x, y) THEN {}
                        ELSE {Max(x.length, y.length)}]
        summed(n, low1, high1, low2, high2, sum1, sum2) ==
            {[n |-> n,
              subs |-> {sub(low1, low2), sub(high1, high2), sub(sum1, sum2)}]}
            \cup KaratsubaSplits2(low1, low2)
            \cup KaratsubaSplits2(high1, high2)
            \cup KaratsubaSplits2(sum1, sum2)
        halves(n, low1, high1, low2, high2) ==
            summed(n, low1, high1, low2, high2, operatorPlus2(low1, high1),
                   operatorPlus2(low2, high2))
        padded(n, m, x, y) ==
            halves(n, getLower2(x, m), getHigher2(x, m), getLower2(y, m),
                   getHigher2(y, m))
        split(n) == padded(n, n \div 2, pad2(this, n), pad2(other, n))
    IN IF leaf(this, other) THEN {}
       ELSE split(Max(this.length, other.length))

\* The splits of the products the last exponentiation has made through
\* karatsuba: res * base in the iterations with an odd exp and base * base
\* in every iteration.
ExponentiationSplits ==
    LET splits(x, y) ==
            IF Len(x.digits) + Len(y.digits) > KARATSUBA_THRESHOLD * 2
            THEN KaratsubaSplits(x, y) ELSE {}
    IN UNION {splits(st.base, st.base) \cup splits(st.res, st.base) :
                 st \in {s \in LoopStates : compare(s.exp, zero) > 0}}
       \cup UNION {KaratsubaSplits2(st.base, st.base)
                       \cup KaratsubaSplits2(st.result, st.base) :
                       st \in {s \in LoopStates2 : ~isZero2(s.exp)}}

\* C26: the recursion of karatsuba terminates: each of the three sub-calls
\* (low * low, high * high, sum * sum) of a call with the padded length n
\* receives operands shorter than n, and a sub-call that splits again does
\* so at a padded length below n, so that the base case is reached.  Both
\* for the threshold 8 with n rounded to even (BigIntv1.cpp) and for the
\* threshold 4 with n as it is (unnamed/part_000).
KaratsubaDescends ==
    \A call \in ExponentiationSplits :
        \A sub \in call.subs :
            /\ \A length \in sub.lengths : length < call.n
            /\ \A n \in sub.deeper : n < call.n

\* modPower has squared a base of 33 digits: karatsuba has split at n = 34,
\* and below that at n = 18 and at n = 10.
KaratsubaDescendsWitness ==
    /\ op = "modPower"
    /\ \E st \in LoopStates : Len(st.base.digits) = 33
    /\ {34, 18, 10} \subseteq {call.n : call \in ExponentiationSplits}

\* modPow has squared a base of 11 digits: karatsuba of unnamed/part_000
\* has split at n = 11 into halves of 6 and 5 digits.
KaratsubaDescendsWitness2 ==
    /\ op = "modPow"
    /\ \E call \in ExponentiationSplits :
          /\ call.n = 11
          /\ \E sub \in call.subs : sub.lengths = {6}
          /\ \E sub \in call.subs : sub.lengths = {5}

(***************************************************************************)
(* Properties of the errors of division                                    *)
(***************************************************************************)
\* C30: for every dividend and every divisor other than zero, divisors of
\* HEX_SIZE digits and dividends not below them included, divide, operator/
\* and operator% return a result: they raise neither Overflow nor
\* InvalidInput.
DivisionRaisesNoOtherError ==
    (Divided /\ ~ZeroMagnitude(b.val)) =>
        /\ result.err = "none"
        /\ divide(a.val, b.val).err = "none"
        /\ operatorDiv(a.val, b.val).err = "none"
        /\ operatorMod(a.val, b.val).err = "none"

\* The same for the divisors of fewer than HEX_SIZE digits, and for the
\* dividends below the divisor.
ShorterDivisionRaisesNoError ==
    (Divided /\ ~ZeroMagnitude(b.val)
        /\ \/ Len(b.val.digits) < HEX_SIZE
           \/ compare(BigHexInt(a.val.digits, FALSE),
                      BigHexInt(b.val.digits, FALSE)) < 0) =>
        result.err = "none"

(***************************************************************************)
(* Properties of a failed multiplication                                   *)
(***************************************************************************)
\* C29: when a multiplication fails with Overflow, karatsubaMemo is as it
\* was before the call: the failed call has added no entry.
FailureLeavesCache ==
    (Multiplied /\ result.err # "none") => karatsubaMemo = memoBefore

(***************************************************************************)
(* Properties of generatePrime                                             *)
(***************************************************************************)
\* After a candidate has failed millerRabinTest, candidate holds that
\* candidate plus two when the loop comes back to its head.
IncrementIsMade ==
    [][(gen.pc = "testing" /\ gen'.pc = "incremented") =>
           IntValue(gen'.candidate) = IntValue(gen.candidate) + 2]_vars

\* C27: whenever a candidate c fails millerRabinTest, the next candidate
\* examined (sieved and tested) is c + 2; a fresh random candidate is drawn
\* only at the start and after an elimination by the sieve.
StepAndTest ==
    [][/\ (gen.pc = "testing" /\ gen'.pc = "incremented") =>
              IntValue(gen'.candidate) = IntValue(gen.candidate) + 2
       /\ (gen.pc = "incremented" /\ gen'.pc = "sieve") =>
              gen'.candidate = gen.candidate]_vars

\* C28: the small-prime sieve of generatePrime never eliminates a prime: a
\* candidate is skipped by the sieve only if it is composite, zero or one.
SieveEliminatesNoPrime ==
    gen.pc = "eliminated" => ~IsPrime(IntValue(gen.candidate))

\* The claim C28 for the candidates other than 17 (hexadecimal).
SieveEliminatesNoOtherPrime ==
    (gen.pc = "eliminated" /\ toString(gen.candidate) # Hex(<<1, 7>>)) =>
        ~IsPrime(IntValue(gen.candidate))

\* The candidate 79 (hexadecimal, 11 * 11) has passed the sieve and failed
\* millerRabinTest, and candidate is 7b.
FailedCandidateWitness ==
    /\ gen.pc = "incremented"
    /\ toString(gen.candidate) = Hex(<<7, 11>>)

=============================================================================
